---- MODULE Spec2Model ----
(***************************************************************************)
(* Breach rendering of shipshape (pkg/breach): the breach variants, the    *)
(* BreachTemplate configuration, the template evaluator                    *)
(* EvaluateTemplateStringWithContext and the renderer                      *)
(* EvaluateTemplateWithContext, with the breaches held by pointer so that  *)
(* in-place updates of the analyser's breach are visible.                  *)
(*                                                                         *)
(* A string is a sequence of tokens.  A token of one character is text; a  *)
(* token "{{ ... }}" is one template action.  A rendered string holds only *)
(* text, an unrendered template source still holds its actions.            *)
(***************************************************************************)
EXTENDS Integers, Sequences, FiniteSets, TLC

\* ------------------------------------------------------------------ bounds
\* number of render calls made on one templater before it is set up anew
MaxCalls == 2
\* longest Values list of a KeyValuesBreach handed to the renderer
MaxValues == 2
MaxStrLen == 6
MaxSeqLen == 3
MaxInt == 7

\* ----------------------------------------------------------------- strings
Empty == << >>

UpperChar(c) ==
    CASE c = "a" -> "A"
      [] c = "b" -> "B"
      [] c = "k" -> "K"
      [] c = "e" -> "E"
      [] OTHER -> c

\* strings.ToUpper
ToUpper(s) == [i \in 1..Len(s) |-> UpperChar(s[i])]

\* -------------------------------------------------------- function library
\* A library function returns [panic, out]: panic is TRUE when the Go code
\* faults at run time (index or slice out of range, division by zero).
Ok(v) == [panic |-> FALSE, out |-> v]
Panic == [panic |-> TRUE, out |-> Empty]

Abs(x) == IF x < 0 THEN 0 - x ELSE x
Sign(x) == IF x < 0 THEN 0 - 1 ELSE IF x > 0 THEN 1 ELSE 0

DigitChars == <<"0", "1", "2", "3", "4", "5", "6", "7", "8", "9">>

RECURSIVE NatDigits(_)
NatDigits(n) ==
    IF n < 10 THEN <<DigitChars[n + 1]>>
    ELSE NatDigits(n \div 10) \o <<DigitChars[(n % 10) + 1]>>

\* strconv.FormatInt(n, 10), and "%d" / "%v" of an integer
FormatInt(n) == IF n < 0 THEN <<"-">> \o NatDigits(0 - n) ELSE NatDigits(n)

\* the Go slice expression s[:hi] of a string
StrPrefix(s, hi) ==
    IF hi < 0 \/ hi > Len(s) THEN Panic ELSE Ok(SubSeq(s, 1, hi))

\* truncate cutting at length and then adding the ellipsis marker
truncate_EllipsisAfter(length, s) ==
    IF Len(s) <= length THEN Ok(s)
    ELSE IF length <= 3 THEN StrPrefix(s, length)
    ELSE LET p == StrPrefix(s, length)
         IN  IF p.panic THEN Panic ELSE Ok(p.out \o <<".", ".", ".">>)

\* TemplateFuncs["truncate"]
truncate(length, s) ==
    IF Len(s) <= length THEN Ok(s)
    ELSE IF length <= 3 THEN StrPrefix(s, length)
    ELSE LET p == StrPrefix(s, length - 3)
         IN  IF p.panic THEN Panic ELSE Ok(p.out \o <<".", ".", ".">>)

\* reflect.Value.Slice(lo, hi) of a slice
RvSlice(v, lo, hi) ==
    IF lo < 0 \/ hi > Len(v) \/ lo > hi THEN Panic
    ELSE Ok([i \in 1..(hi - lo) |-> v[lo + i]])

\* slice without the clamp of start
slice_NoStartClamp(start, end, v) ==
    LET end1 == IF end > Len(v) THEN Len(v) ELSE end
    IN  IF start >= end1 THEN Ok(<< >>)
        ELSE RvSlice(v, start, end1)

\* TemplateFuncs["slice"], for a value of slice kind
slice(start, end, v) ==
    LET start1 == IF start < 0 THEN 0 ELSE start
        end1 == IF end > Len(v) THEN Len(v) ELSE end
    IN  IF start1 >= end1 THEN Ok(<< >>)
        ELSE RvSlice(v, start1, end1)

\* num/den rounded to tenths as "%.1f" rounds (to nearest, a tie to the even
\* digit), for num >= 0 and den > 0; the result is the number of tenths
RoundTenths(num, den) ==
    LET t == (num * 10) \div den
        f == (num * 10) % den
        up == 2 * f > den \/ (2 * f = den /\ t % 2 = 1)
    IN  IF up THEN t + 1 ELSE t

\* fmt.Sprintf("%.1f", num/den)
FormatFixed1(num, den) ==
    LET t == RoundTenths(num, den)
    IN  NatDigits(t \div 10) \o <<".">> \o NatDigits(t % 10)

Suffixes == <<Empty, <<"K">>, <<"M">>, <<"B">>, <<"T">> >>

\* the loop of humanizeNumber: value /= 1000 while value >= 1000 and a
\* suffix is left; d is the divisor reached, k the suffix index
RECURSIVE HumanizeScale(_, _, _)
HumanizeScale(n, d, k) ==
    IF n >= 1000 * d /\ k < Len(Suffixes) - 1
    THEN HumanizeScale(n, d * 1000, k + 1)
    ELSE [d |-> d, k |-> k]

humanizeNumber(n) ==
    IF n < 1000 THEN FormatInt(n)
    ELSE LET sc == HumanizeScale(n, 1, 0)
         IN  IF n % sc.d = 0
             THEN NatDigits(n \div sc.d) \o Suffixes[sc.k + 1]
             ELSE FormatFixed1(n, sc.d) \o Suffixes[sc.k + 1]

Units == << <<"B">>, <<"K", "B">>, <<"M", "B">>, <<"G", "B">>, <<"T", "B">>,
            <<"P", "B">>, <<"E", "B">> >>

\* the loop of humanizeBytes: for n := size / unit; n >= unit; n /= unit
RECURSIVE BytesScale(_, _, _)
BytesScale(n, dv, exp) ==
    IF n >= 1024 THEN BytesScale(n \div 1024, dv * 1024, exp + 1)
    ELSE [dv |-> dv, exp |-> exp]

humanizeBytes(size) ==
    IF size < 1024 THEN FormatInt(size) \o <<" ", "B">>
    ELSE LET sc == BytesScale(size \div 1024, 1024, 0)
         IN  FormatFixed1(size, sc.dv) \o <<" ">> \o Units[sc.exp + 2]

\* the bytes of the strings the comparisons see, in ASCII order
Alphabet == <<"-", ".", "0", "1", "2", "3", "4", "5", "6", "7", "8", "9", "a", "b">>
CharCode(c) == CHOOSE i \in 1..Len(Alphabet) : Alphabet[i] = c

\* strings.Compare
RECURSIVE stringsCompare(_, _)
stringsCompare(x, y) ==
    IF x = Empty /\ y = Empty THEN 0
    ELSE IF x = Empty THEN 0 - 1
    ELSE IF y = Empty THEN 1
    ELSE IF CharCode(Head(x)) < CharCode(Head(y)) THEN 0 - 1
    ELSE IF CharCode(Head(x)) > CharCode(Head(y)) THEN 1
    ELSE stringsCompare(Tail(x), Tail(y))

\* A value handed to a comparison is [kind, num, str]: kind is "int", "uint",
\* "float" or "string"; num is the number in tenths (an int 5 is 50, a float
\* 9.5 is 95), str the string of a value of kind "string".
\* fmt.Sprintf("%v", x)
FormatValue(x) ==
    IF x.kind = "string" THEN x.str
    ELSE IF x.num % 10 = 0 THEN FormatInt(x.num \div 10)
    ELSE (IF x.num < 0 THEN <<"-">> ELSE Empty)
         \o NatDigits(Abs(x.num) \div 10) \o <<".">> \o NatDigits(Abs(x.num) % 10)

compareValues(a, b) ==
    IF a.kind = "int" /\ b.kind = "int" THEN Sign(a.num - b.num)
    ELSE IF a.kind = "uint" /\ b.kind = "uint" THEN Sign(a.num - b.num)
    ELSE IF a.kind = "float" /\ b.kind = "float" THEN Sign(a.num - b.num)
    ELSE IF a.kind = "string" /\ b.kind = "string" THEN stringsCompare(a.str, b.str)
    ELSE stringsCompare(FormatValue(a), FormatValue(b))

\* TemplateFuncs["lt"], ["le"], ["gt"], ["ge"]
lt(a, b) == compareValues(a, b) < 0
le(a, b) == compareValues(a, b) <= 0
gt(a, b) == compareValues(a, b) > 0
ge(a, b) == compareValues(a, b) >= 0

\* the Go operators a / b and a % b on int: the quotient is truncated
\* towards zero, the remainder has the sign of a, b = 0 faults
GoQuo(a, b) ==
    IF b = 0 THEN Panic
    ELSE Ok(Sign(a) * Sign(b) * (Abs(a) \div Abs(b)))

GoRem(a, b) ==
    IF b = 0 THEN Panic
    ELSE Ok(Sign(a) * (Abs(a) % Abs(b)))

\* div without the test of the divisor
div_NoZeroGuard(a, b) == GoQuo(a, b)

\* TemplateFuncs["div"], ["mod"]
div(a, b) == IF b = 0 THEN Ok(0) ELSE GoQuo(a, b)

mod(a, b) == IF b = 0 THEN Ok(0) ELSE GoRem(a, b)

\* ---------------------------------------------------------- breach variants
BreachTypeValue == "value"
BreachTypeKeyValue == "key-value"
BreachTypeKeyValues == "key-values"

\* the tags of the three breach structs, and the tag of a value that
\* implements the Breach interface and is none of them
KnownTypes == {BreachTypeValue, BreachTypeKeyValue, BreachTypeKeyValues}
BreachTypeOther == "other"

NoRemediator == <<"none", "">>

\* One record shape for the three structs; a field a variant does not have
\* stays at its zero value and is never read for that variant.
NewBreach(variant) ==
    [variant |-> variant, BreachType |-> "", CheckType |-> Empty,
     CheckName |-> Empty, Severity |-> Empty, KeyLabel |-> Empty,
     Key |-> Empty, ValueLabel |-> Empty, Value |-> Empty,
     Values |-> << >>, ExpectedValue |-> Empty, Remediator |-> NoRemediator]

\* b.GetType(): the tag of the runtime variant
GetType(b) == b.variant

HasField(b, f) ==
    CASE f = "Value" -> b.variant \in {BreachTypeValue, BreachTypeKeyValue}
      [] f = "ValueLabel" -> TRUE
      [] f = "Key" -> b.variant \in {BreachTypeKeyValue, BreachTypeKeyValues}
      [] f = "KeyLabel" -> b.variant \in {BreachTypeKeyValue, BreachTypeKeyValues}
      [] f = "Values" -> b.variant = BreachTypeKeyValues
      [] f = "ExpectedValue" -> b.variant = BreachTypeKeyValue
      [] OTHER -> FALSE

BreachGetValueLabel(b) == b.ValueLabel
BreachGetValue(b) == IF HasField(b, "Value") THEN b.Value ELSE Empty
BreachGetKeyLabel(b) == IF HasField(b, "KeyLabel") THEN b.KeyLabel ELSE Empty
BreachGetKey(b) == IF HasField(b, "Key") THEN b.Key ELSE Empty

\* ss_rem.RemediatorFromInterface(remediation)
RemediatorFromInterface(remediation) == <<"remediator", remediation>>

\* b.SetRemediator(r)
SetRemediator(b, r) == [b EXCEPT !.Remediator = r]

\* ------------------------------------------------------- template actions
A_Value == "{{ .Breach.Value }}"
A_Upper == "{{ .Breach.Value | upper }}"
A_Key == "{{ .Breach.Key }}"
A_Severity == "{{ .Severity }}"
A_Malformed == "{{ .Breach.Value | }}"
A_NoField == "{{ .NonExistentField }}"
A_Truncate == "{{ truncate .Context.n .Context.s }}"
A_Div == "{{ div .Context.a .Context.b }}"
A_Mod == "{{ mod .Context.a .Context.b }}"

\* the actions that call a function of the library on values of the
\* user-defined context
CallActions == {A_Truncate, A_Div, A_Mod}

Actions == {A_Value, A_Upper, A_Key, A_Severity, A_Malformed, A_NoField}
               \cup CallActions

\* err.Error() of a failed Parse / Execute
ParseErrorText(tok) == <<"template: breachTemplateString:1: missing value for command", tok>>
ExecErrorText(tok) == <<"template: breachTemplateString: executing: can't evaluate field", tok>>
CallErrorText(tok) == <<"template: breachTemplateString: executing: error calling function", tok>>

ErrParse == "unable to parse breach template"
ErrRender == "unable to render breach template"

\* first position at or after i of a malformed action of the source, 0 when
\* there is none
RECURSIVE FirstMalformed(_, _)
FirstMalformed(src, i) ==
    IF i > Len(src) THEN 0
    ELSE IF src[i] = A_Malformed THEN i
    ELSE FirstMalformed(src, i + 1)

\* template.New(...).Funcs(TemplateFuncs).Parse(templateStr)
Parse(src) ==
    LET i == FirstMalformed(src, 1)
    IN  IF i = 0 THEN [err |-> FALSE, text |-> Empty]
        ELSE [err |-> TRUE, text |-> ParseErrorText(src[i])]

\* the value of one action against the context; the breach is read through
\* the pointer held by the context
ExecAction(tok, ctx, objs) ==
    LET b == objs[ctx.Breach]
    IN  CASE tok = A_Value ->
               IF HasField(b, "Value") THEN [err |-> FALSE, out |-> b.Value]
               ELSE [err |-> TRUE, out |-> Empty]
          [] tok = A_Upper ->
               IF HasField(b, "Value") THEN [err |-> FALSE, out |-> ToUpper(b.Value)]
               ELSE [err |-> TRUE, out |-> Empty]
          [] tok = A_Key ->
               IF HasField(b, "Key") THEN [err |-> FALSE, out |-> b.Key]
               ELSE [err |-> TRUE, out |-> Empty]
          [] tok = A_Severity -> [err |-> FALSE, out |-> ctx.Severity]
          [] tok = A_Truncate ->
               IF {"n", "s"} \subseteq DOMAIN ctx.Context
               THEN LET r == truncate(ctx.Context.n, ctx.Context.s)
                    IN  [err |-> r.panic, out |-> r.out]
               ELSE [err |-> TRUE, out |-> Empty]
          [] tok = A_Div ->
               IF {"a", "b"} \subseteq DOMAIN ctx.Context
               THEN LET r == div(ctx.Context.a, ctx.Context.b)
                    IN  [err |-> r.panic,
                         out |-> IF r.panic THEN Empty ELSE FormatInt(r.out)]
               ELSE [err |-> TRUE, out |-> Empty]
          [] tok = A_Mod ->
               IF {"a", "b"} \subseteq DOMAIN ctx.Context
               THEN LET r == mod(ctx.Context.a, ctx.Context.b)
                    IN  [err |-> r.panic,
                         out |-> IF r.panic THEN Empty ELSE FormatInt(r.out)]
               ELSE [err |-> TRUE, out |-> Empty]
          [] OTHER -> [err |-> TRUE, out |-> Empty]

\* templ.Execute(buf, ctx): text is copied to the buffer, an action writes
\* its value, the first failing action stops the execution with the buffer
\* partly written; a fault inside a called function is recovered by the
\* template engine and is the error of the execution
RECURSIVE ExecFrom(_, _, _, _, _)
ExecFrom(src, i, buf, ctx, objs) ==
    IF i > Len(src) THEN [err |-> FALSE, buf |-> buf, text |-> Empty]
    ELSE IF src[i] \in Actions
         THEN LET r == ExecAction(src[i], ctx, objs)
              IN  IF r.err
                  THEN [err |-> TRUE, buf |-> buf,
                        text |-> IF src[i] \in CallActions
                                 THEN CallErrorText(src[i])
                                 ELSE ExecErrorText(src[i])]
                  ELSE ExecFrom(src, i + 1, buf \o r.out, ctx, objs)
         ELSE ExecFrom(src, i + 1, Append(buf, src[i]), ctx, objs)

Execute(src, ctx, objs) == ExecFrom(src, 1, Empty, ctx, objs)

\* ------------------------------------------------------------- templater
\* The heap of breach objects and the templater's list of breach pointers,
\* threaded through a call: st.objs[p] is the object behind pointer p,
\* st.breaches the pointers added so far, st.evals the template sources
\* evaluated so far, st.ret the value returned by the last evaluation.

\* bt.AddBreach(b) for a breach already on the heap
AddBreach(st, p) == [st EXCEPT !.breaches = Append(@, p)]

\* bt.AddBreach(&X{...}) for a newly constructed breach
AddNewBreach(st, b) ==
    [st EXCEPT !.objs = Append(@, b), !.breaches = Append(@, Len(st.objs) + 1)]

SyntheticBreach(label, text) ==
    [NewBreach(BreachTypeValue) EXCEPT !.ValueLabel = <<label>>, !.Value = text]

\* EvaluateTemplateStringWithContext returning the partly written buffer
\* when the execution fails
EvaluateTemplateStringWithContext_Partial(st, templateStr, ctx) ==
    LET st0 == [st EXCEPT !.evals = Append(@, templateStr)]
        p == Parse(templateStr)
        e == Execute(templateStr, ctx, st.objs)
    IN  IF p.err
        THEN [AddNewBreach(st0, SyntheticBreach(ErrParse, p.text))
                EXCEPT !.ret = templateStr]
        ELSE IF e.err
        THEN [AddNewBreach(st0, SyntheticBreach(ErrRender, e.text))
                EXCEPT !.ret = e.buf]
        ELSE [st0 EXCEPT !.ret = e.buf]

\* EvaluateTemplateStringWithContext reporting no failed execution
EvaluateTemplateStringWithContext_Silent(st, templateStr, ctx) ==
    LET st0 == [st EXCEPT !.evals = Append(@, templateStr)]
        p == Parse(templateStr)
        e == Execute(templateStr, ctx, st.objs)
    IN  IF p.err
        THEN [AddNewBreach(st0, SyntheticBreach(ErrParse, p.text))
                EXCEPT !.ret = templateStr]
        ELSE IF e.err
        THEN [st0 EXCEPT !.ret = templateStr]
        ELSE [st0 EXCEPT !.ret = e.buf]

EvaluateTemplateStringWithContext(st, templateStr, ctx) ==
    LET st0 == [st EXCEPT !.evals = Append(@, templateStr)]
        p == Parse(templateStr)
        e == Execute(templateStr, ctx, st.objs)
    IN  IF p.err
        THEN [AddNewBreach(st0, SyntheticBreach(ErrParse, p.text))
                EXCEPT !.ret = templateStr]
        ELSE IF e.err
        THEN [AddNewBreach(st0, SyntheticBreach(ErrRender, e.text))
                EXCEPT !.ret = templateStr]
        ELSE [st0 EXCEPT !.ret = e.buf]

\* a BreachTemplate or TemplateContext without user-defined context
NilContext == << >>

\* the TemplateContext built by EvaluateTemplateWithContext; the templates
\* of the model set no Context, so t.Context is the nil map
TemplateContext(objs, p, outputFormat) ==
    [Breach |-> p, OutputFormat |-> outputFormat,
     Severity |-> objs[p].Severity, CheckName |-> objs[p].CheckName,
     CheckType |-> objs[p].CheckType, Context |-> NilContext]

\* TemplateContext{..., Context: m}
WithContext(ctx, m) == [ctx EXCEPT !.Context = m]

\* ---------------------------------------------------------------- renderer
\* A BreachTemplate is a record [Type, KeyLabel, Key, ValueLabel, Value,
\* Template, Templates]; Templates is a function from format names to sources.

\* "No template set, use raw breach."
IsRaw(t) == t.Type = "" /\ t.Template = Empty /\ Cardinality(DOMAIN t.Templates) = 0

\* ResolveTemplate with Template consulted before Templates
ResolveTemplate_TemplateFirst(t, outputFormat) ==
    IF t.Template # Empty THEN t.Template
    ELSE IF outputFormat \in DOMAIN t.Templates THEN t.Templates[outputFormat]
    ELSE IF "default" \in DOMAIN t.Templates THEN t.Templates["default"]
    ELSE Empty

\* ResolveTemplate without the "default" entry
ResolveTemplate_NoDefault(t, outputFormat) ==
    IF Cardinality(DOMAIN t.Templates) > 0
    THEN IF outputFormat \in DOMAIN t.Templates THEN t.Templates[outputFormat]
         ELSE Empty
    ELSE IF t.Template # Empty THEN t.Template
    ELSE Empty

\* the rich template chosen for the output format, Empty when there is none
ResolveTemplate(t, outputFormat) ==
    IF Cardinality(DOMAIN t.Templates) > 0
    THEN IF outputFormat \in DOMAIN t.Templates THEN t.Templates[outputFormat]
         ELSE IF "default" \in DOMAIN t.Templates THEN t.Templates["default"]
         ELSE Empty
    ELSE IF t.Template # Empty THEN t.Template
    ELSE Empty

\* RenderRaw without the SetRemediator call
RenderRaw_NoRemediator(st, p, remediation) == AddBreach(st, p)

\* the raw branch: the remediator is set on the breach itself, which is added
RenderRaw(st, p, remediation) ==
    LET r == RemediatorFromInterface(remediation)
        st1 == [st EXCEPT !.objs[p] = SetRemediator(@, r)]
    IN  AddBreach(st1, p)

\* EnhancedBreach adding the rendered value to the Values of a KeyValuesBreach
EnhancedBreach_KeepValues(b, renderedValue) ==
    LET common == [NewBreach(b.variant) EXCEPT !.BreachType = GetType(b),
                       !.CheckType = b.CheckType, !.CheckName = b.CheckName,
                       !.Severity = b.Severity]
    IN  CASE GetType(b) = BreachTypeValue ->
               [common EXCEPT !.Value = renderedValue]
          [] GetType(b) = BreachTypeKeyValue ->
               [common EXCEPT !.KeyLabel = b.KeyLabel, !.Key = b.Key,
                              !.ValueLabel = b.ValueLabel, !.Value = renderedValue]
          [] GetType(b) = BreachTypeKeyValues ->
               [common EXCEPT !.KeyLabel = b.KeyLabel, !.Key = b.Key,
                              !.ValueLabel = b.ValueLabel,
                              !.Values = Append(b.Values, renderedValue)]

\* the breach constructed by the rich branch for each breach type
EnhancedBreach(b, renderedValue) ==
    LET common == [NewBreach(b.variant) EXCEPT !.BreachType = GetType(b),
                       !.CheckType = b.CheckType, !.CheckName = b.CheckName,
                       !.Severity = b.Severity]
    IN  CASE GetType(b) = BreachTypeValue ->
               [common EXCEPT !.Value = renderedValue]
          [] GetType(b) = BreachTypeKeyValue ->
               [common EXCEPT !.KeyLabel = b.KeyLabel, !.Key = b.Key,
                              !.ValueLabel = b.ValueLabel, !.Value = renderedValue]
          [] GetType(b) = BreachTypeKeyValues ->
               [common EXCEPT !.KeyLabel = b.KeyLabel, !.Key = b.Key,
                              !.ValueLabel = b.ValueLabel,
                              !.Values = <<renderedValue>>]

\* RenderEnhanced giving up on the finding when the evaluation reported an
\* error
RenderEnhanced_Abort(st, p, remediation, templateStr, ctx) ==
    LET st1 == EvaluateTemplateStringWithContext(st, templateStr, ctx)
        r == RemediatorFromInterface(remediation)
        breach == SetRemediator(EnhancedBreach(st1.objs[p], st1.ret), r)
    IN  IF GetType(st1.objs[p]) \notin KnownTypes THEN st1
        ELSE IF Len(st1.breaches) > Len(st.breaches) THEN st1
        ELSE AddNewBreach(st1, breach)

\* the rich branch: one evaluation, then a new breach carrying its result;
\* the switch on the tag has no default case, so for another tag the branch
\* returns after the evaluation
RenderEnhanced(st, p, remediation, templateStr, ctx) ==
    LET st1 == EvaluateTemplateStringWithContext(st, templateStr, ctx)
        r == RemediatorFromInterface(remediation)
        breach == SetRemediator(EnhancedBreach(st1.objs[p], st1.ret), r)
    IN  IF GetType(st1.objs[p]) \notin KnownTypes THEN st1
        ELSE AddNewBreach(st1, breach)

\* one legacy field: evaluated when its source is set, else the breach's value
LegacyField(st, source, original, ctx) ==
    IF source # Empty
    THEN EvaluateTemplateStringWithContext(st, source, ctx)
    ELSE [st EXCEPT !.ret = original]

\* LegacyAssign without the assignment of Value to a KeyValueBreach
LegacyAssign_KeepValue(b, rendered) ==
    CASE rendered.Type = BreachTypeValue ->
           [b EXCEPT !.ValueLabel = rendered.ValueLabel, !.Value = rendered.Value]
      [] rendered.Type = BreachTypeKeyValue ->
           [b EXCEPT !.KeyLabel = rendered.KeyLabel, !.Key = rendered.Key,
                     !.ValueLabel = rendered.ValueLabel]
      [] rendered.Type = BreachTypeKeyValues ->
           [b EXCEPT !.KeyLabel = rendered.KeyLabel, !.Key = rendered.Key,
                     !.ValueLabel = rendered.ValueLabel]

\* the in-place update of the breach from the rendered fields
LegacyAssign(b, rendered) ==
    CASE rendered.Type = BreachTypeValue ->
           [b EXCEPT !.ValueLabel = rendered.ValueLabel, !.Value = rendered.Value]
      [] rendered.Type = BreachTypeKeyValue ->
           [b EXCEPT !.KeyLabel = rendered.KeyLabel, !.Key = rendered.Key,
                     !.ValueLabel = rendered.ValueLabel, !.Value = rendered.Value]
      [] rendered.Type = BreachTypeKeyValues ->
           [b EXCEPT !.KeyLabel = rendered.KeyLabel, !.Key = rendered.Key,
                     !.ValueLabel = rendered.ValueLabel]

\* RenderLegacy writing the rendered Key into the breach before the
\* templates of ValueLabel and Value are evaluated
RenderLegacy_Sequential(st, p, remediation, t, ctx) ==
    LET b == st.objs[p]
        s1 == LegacyField(st, t.KeyLabel, BreachGetKeyLabel(b), ctx)
        s2 == LegacyField(s1, t.Key, BreachGetKey(b), ctx)
        s2a == [s2 EXCEPT !.objs[p].Key = s2.ret]
        s3 == LegacyField(s2a, t.ValueLabel, BreachGetValueLabel(b), ctx)
        s4 == LegacyField(s3, t.Value, BreachGetValue(b), ctx)
        rendered == [Type |-> GetType(b), KeyLabel |-> s1.ret, Key |-> s2.ret,
                     ValueLabel |-> s3.ret, Value |-> s4.ret]
        r == RemediatorFromInterface(remediation)
        s5 == [s4 EXCEPT !.objs[p] = SetRemediator(LegacyAssign(@, rendered), r)]
    IN  IF rendered.Type \notin KnownTypes THEN [s4 EXCEPT !.fault = TRUE]
        ELSE AddBreach(s5, p)

\* RenderLegacy adding the breach without a SetRemediator call
RenderLegacy_NoRemediator(st, p, remediation, t, ctx) ==
    LET b == st.objs[p]
        s1 == LegacyField(st, t.KeyLabel, BreachGetKeyLabel(b), ctx)
        s2 == LegacyField(s1, t.Key, BreachGetKey(b), ctx)
        s3 == LegacyField(s2, t.ValueLabel, BreachGetValueLabel(b), ctx)
        s4 == LegacyField(s3, t.Value, BreachGetValue(b), ctx)
        rendered == [Type |-> GetType(b), KeyLabel |-> s1.ret, Key |-> s2.ret,
                     ValueLabel |-> s3.ret, Value |-> s4.ret]
        s5 == [s4 EXCEPT !.objs[p] = LegacyAssign(@, rendered)]
    IN  IF rendered.Type \notin KnownTypes THEN [s4 EXCEPT !.fault = TRUE]
        ELSE AddBreach(s5, p)

\* the legacy branch: the four fields are evaluated in the order KeyLabel,
\* Key, ValueLabel, Value, then written into the breach passed in; for a tag
\* that the switch does not name breachToAdd stays nil and the call of
\* SetRemediator on it faults
RenderLegacy(st, p, remediation, t, ctx) ==
    LET b == st.objs[p]
        s1 == LegacyField(st, t.KeyLabel, BreachGetKeyLabel(b), ctx)
        s2 == LegacyField(s1, t.Key, BreachGetKey(b), ctx)
        s3 == LegacyField(s2, t.ValueLabel, BreachGetValueLabel(b), ctx)
        s4 == LegacyField(s3, t.Value, BreachGetValue(b), ctx)
        rendered == [Type |-> GetType(b), KeyLabel |-> s1.ret, Key |-> s2.ret,
                     ValueLabel |-> s3.ret, Value |-> s4.ret]
        r == RemediatorFromInterface(remediation)
        s5 == [s4 EXCEPT !.objs[p] = SetRemediator(LegacyAssign(@, rendered), r)]
    IN  IF rendered.Type \notin KnownTypes THEN [s4 EXCEPT !.fault = TRUE]
        ELSE AddBreach(s5, p)

\* EvaluateTemplateWithContext without the return that ends the rich branch
EvaluateTemplateWithContext_FallThrough(st, t, p, remediation, outputFormat) ==
    LET ctx == TemplateContext(st.objs, p, outputFormat)
        templateStr == ResolveTemplate(t, outputFormat)
    IN  IF IsRaw(t) THEN RenderRaw(st, p, remediation)
        ELSE IF templateStr # Empty
        THEN RenderLegacy(RenderEnhanced(st, p, remediation, templateStr, ctx),
                          p, remediation, t, ctx)
        ELSE RenderLegacy(st, p, remediation, t, ctx)

EvaluateTemplateWithContext(st, t, p, remediation, outputFormat) ==
    LET ctx == TemplateContext(st.objs, p, outputFormat)
        templateStr == ResolveTemplate(t, outputFormat)
    IN  IF IsRaw(t) THEN RenderRaw(st, p, remediation)
        ELSE IF templateStr # Empty
        THEN RenderEnhanced(st, p, remediation, templateStr, ctx)
        ELSE RenderLegacy(st, p, remediation, t, ctx)

\* EvaluateTemplate rendering for the "json" format
EvaluateTemplate_Json(st, t, p, remediation) ==
    EvaluateTemplateWithContext(st, t, p, remediation, "json")

EvaluateTemplate(st, t, p, remediation) ==
    EvaluateTemplateWithContext(st, t, p, remediation, "pretty")

\* ------------------------------------------------------------------ inputs
S_File == <<"F", "i", "l", "e">>
S_Err == <<"E", "r", "r">>
S_ab == <<"a", "b">>

\* template sources
Src_Upper == <<A_Upper>>
Src_Key == <<A_Key>>
Src_Malformed == <<"x", A_Malformed>>
Src_NoField == <<"x", A_NoField>>
Src_B == <<"N", ":", A_Upper>>
Src_A == <<"J", ":", A_Value>>
Src_D == <<"D", ":", A_Severity>>
Src_P == <<"P", ":", A_Key>>

LegacyChoices ==
    { [KeyLabel |-> Empty, Key |-> Empty, ValueLabel |-> Empty, Value |-> Empty],
      [KeyLabel |-> Empty, Key |-> Empty, ValueLabel |-> Empty, Value |-> Src_Upper],
      [KeyLabel |-> S_File, Key |-> Src_Key, ValueLabel |-> S_Err, Value |-> Src_Upper],
      [KeyLabel |-> S_File, Key |-> Empty, ValueLabel |-> Empty, Value |-> Src_Malformed],
      [KeyLabel |-> Empty, Key |-> Src_Key, ValueLabel |-> S_Err, Value |-> Empty],
      [KeyLabel |-> Empty, Key |-> Src_P, ValueLabel |-> Empty, Value |-> Src_Key] }

TemplatesChoices ==
    { << >>,
      [f \in {"json"} |-> Src_A],
      [f \in {"json", "default"} |-> IF f = "json" THEN Src_A ELSE Src_D],
      [f \in {"default"} |-> Src_D],
      [f \in {"json"} |-> Empty],
      [f \in {"table"} |-> Src_A],
      [f \in {"json", "pretty"} |-> IF f = "json" THEN Src_Malformed ELSE Src_P] }

BreachTemplates ==
    { [Type |-> ty, KeyLabel |-> l.KeyLabel, Key |-> l.Key,
       ValueLabel |-> l.ValueLabel, Value |-> l.Value,
       Template |-> tp, Templates |-> m] :
        ty \in {"", BreachTypeValue, BreachTypeKeyValue, BreachTypeKeyValues},
        l \in LegacyChoices, tp \in {Empty, Src_B, Src_NoField},
        m \in TemplatesChoices }

OutputFormats == {"json", "pretty"}
Remediations == {"nil", "command"}

\* the breaches an analyser hands over: the common values may already be
\* set, BreachType is set by the analyser or left at its zero value
Common(variant, bt) ==
    [NewBreach(variant) EXCEPT !.BreachType = bt, !.CheckType = <<"t">>,
         !.CheckName = <<"c">>, !.Severity = <<"h">>]

ValuesOfLen(n) == [i \in 1..n |-> IF i % 2 = 1 THEN <<"a">> ELSE <<"b">>]

InputBreaches ==
    { [Common(BreachTypeValue, bt) EXCEPT !.Value = S_ab, !.ValueLabel = vl] :
        bt \in {"", BreachTypeValue}, vl \in {Empty, <<"l">>} }
    \cup
    { [Common(BreachTypeKeyValue, bt) EXCEPT !.Key = <<"k">>, !.Value = S_ab,
          !.KeyLabel = lb[1], !.ValueLabel = lb[2], !.ExpectedValue = <<"e">>] :
        bt \in {"", BreachTypeKeyValue}, lb \in {<<Empty, Empty>>, <<(<<"m">>), (<<"l">>)>>} }
    \cup
    { [Common(BreachTypeKeyValues, bt) EXCEPT !.Key = <<"k">>,
          !.Values = ValuesOfLen(n), !.KeyLabel = lb[1], !.ValueLabel = lb[2]] :
        bt \in {BreachTypeKeyValues}, n \in 0..MaxValues,
        lb \in {<<Empty, Empty>>, <<(<<"m">>), (<<"l">>)>>} }

DirectSources == {Empty, S_File, Src_Upper, Src_Key, Src_Malformed, Src_NoField, Src_D}

\* ------------------------------------------------------------------- state
VARIABLES
    template,   \* the BreachTemplate of the templater (GetBreachTemplate)
    objs,       \* the heap of breach objects; objs[1] is the analyser's breach
    breaches,   \* the templater's breaches, as pointers into objs
    call,       \* the last call made: its arguments, the state before it,
                \* the sources it evaluated and the value it returned
    ncalls,     \* calls made on this templater
    lib,        \* an application of a library function: the function, its
                \* arguments, whether it was applied, and its result
    output,     \* the outputters: the Stdout and File structs, the flags set
                \* on the command line, the files written, the last operation
    analysis    \* a static analysis: the fact plugin and the analyser as
                \* configured, the tool's process, the data the fact stored

vars == <<template, objs, breaches, call, ncalls, lib, output, analysis>>

InputPtr == 1

NoCall == [op |-> "none", outputFormat |-> "", remediation |-> "",
           source |-> Empty, pre |-> << >>, preBreaches |-> << >>,
           evals |-> << >>, ret |-> Empty, fault |-> FALSE]

NoLib == [fn |-> "none", args |-> << >>, done |-> FALSE, out |-> Empty]

\* a path is the sequence of its elements; "" is the empty sequence
NoPath == << >>

\* the value nil of a []byte or an error
Nil == <<"nil">>

NoOp == [op |-> "none", buf |-> Nil, err |-> Nil, created |-> {}]

\* the package variables s and f after init() and AddFlags: the flag
\* defaults are written to the fields the flags are bound to
NewOutputters ==
    [stdout |-> [Format |-> "pretty", formatSetByFlag |-> FALSE],
     file |-> [Path |-> NoPath, Format |-> "", pathSetByFlag |-> FALSE,
               formatSetByFlag |-> FALSE],
     changed |-> {}, phase |-> "flags", fs |-> {}, last |-> NoOp]

\* no static analysis is configured
NoAnalysis == [phase |-> "none"]

Init ==
    /\ template \in BreachTemplates
    /\ \E b \in InputBreaches : objs = <<b>>
    /\ breaches = << >>
    /\ call = NoCall
    /\ ncalls = 0
    /\ lib = NoLib
    /\ output = NewOutputters
    /\ analysis = NoAnalysis

Start == [objs |-> objs, breaches |-> breaches, evals |-> << >>, ret |-> Empty,
          fault |-> FALSE]

Finish(st, op, outputFormat, remediation, source) ==
    /\ objs' = st.objs
    /\ breaches' = st.breaches
    /\ call' = [op |-> op, outputFormat |-> outputFormat,
                remediation |-> remediation, source |-> source,
                pre |-> objs, preBreaches |-> breaches,
                evals |-> st.evals, ret |-> st.ret, fault |-> st.fault]
    /\ ncalls' = ncalls + 1
    /\ UNCHANGED <<template, lib, output, analysis>>

CallEvaluateTemplateWithContext ==
    /\ ncalls < MaxCalls
    /\ ~call.fault
    /\ \E remediation \in Remediations, outputFormat \in OutputFormats :
          Finish(EvaluateTemplateWithContext(Start, template, InputPtr,
                                             remediation, outputFormat),
                 "EvaluateTemplateWithContext", outputFormat, remediation, Empty)

CallEvaluateTemplate ==
    /\ ncalls < MaxCalls
    /\ ~call.fault
    /\ \E remediation \in Remediations :
          Finish(EvaluateTemplate(Start, template, InputPtr, remediation),
                 "EvaluateTemplate", "pretty", remediation, Empty)

CallEvaluateTemplateStringWithContext ==
    /\ ncalls < MaxCalls
    /\ ~call.fault
    /\ \E source \in DirectSources :
          Finish(EvaluateTemplateStringWithContext(Start, source,
                     TemplateContext(objs, InputPtr, "pretty")),
                 "EvaluateTemplateStringWithContext", "pretty", "", source)

\* a test's "bt.breaches = []Breach{}": the list is emptied, the analyser's
\* breach stays as the calls left it
ResetBreaches ==
    /\ ncalls > 0
    /\ ~call.fault
    /\ breaches # << >>
    /\ breaches' = << >>
    /\ objs' = <<objs[InputPtr]>>
    /\ call' = NoCall
    /\ UNCHANGED <<template, ncalls, lib, output, analysis>>

Next ==
    \/ CallEvaluateTemplateWithContext
    \/ CallEvaluateTemplate
    \/ CallEvaluateTemplateStringWithContext
    \/ ResetBreaches

Spec == Init /\ [][Next]_vars

\* ------------------------------------------------ any Breach implementation
\* The renderer takes the interface Breach: the same calls, made with a
\* breach whose GetType is not one of the three tags.
OtherBreaches ==
    { [Common(BreachTypeOther, bt) EXCEPT !.ValueLabel = vl] :
        bt \in {"", BreachTypeOther}, vl \in {Empty, <<"l">>} }

InitOpen ==
    /\ template \in BreachTemplates
    /\ \E b \in OtherBreaches : objs = <<b>>
    /\ breaches = << >>
    /\ call = NoCall
    /\ ncalls = 0
    /\ lib = NoLib
    /\ output = NewOutputters
    /\ analysis = NoAnalysis

SpecOpen == InitOpen /\ [][Next]_vars

\* ------------------------------------------------- the function library
\* The inputs of an application are drawn by the initial state; the Apply
\* actions apply the function, and the functions that the model's templates
\* call are also evaluated through EvaluateTemplateStringWithContext.
Strings ==
    { SubSeq(<<"h", "e", "l", "l", "o", " ", "w", "o", "r", "l", "d">>, 1, n) :
        n \in 0..MaxStrLen }

Seqs == { SubSeq(<<"a", "b", "c", "d", "e", "f">>, 1, n) : n \in 0..MaxSeqLen }

NumberInputs ==
    LET Magnitudes == {0, 1, 999, 1000, 1250, 1500, 1750, 2000, 12345, 999999,
                       1000000, 1500000, 12345678}
    IN  Magnitudes \cup { 0 - n : n \in Magnitudes }

SizeInputs ==
    LET Sizes == {0, 1, 512, 1023, 1024, 1280, 1536, 2048, 10240, 1048576,
                  1572864, 5242880}
    IN  Sizes \cup { 0 - n : n \in Sizes }

IntValue(n) == [kind |-> "int", num |-> 10 * n, str |-> Empty]
UintValue(n) == [kind |-> "uint", num |-> 10 * n, str |-> Empty]
FloatValue(tenths) == [kind |-> "float", num |-> tenths, str |-> Empty]
StringValue(str) == [kind |-> "string", num |-> 0, str |-> str]

Values ==
    { IntValue(n) : n \in {0 - 2, 5, 9, 10} }
    \cup { UintValue(n) : n \in {5, 9, 10} }
    \cup { FloatValue(t) : t \in {0 - 25, 25, 95, 100} }
    \cup { StringValue(x) : x \in {<<"1", "0">>, <<"9">>, <<"a">>, <<"b">>} }

CompareOps == {"lt", "le", "gt", "ge"}
Ints == (0 - MaxInt)..MaxInt

Application(fn, args) == [fn |-> fn, args |-> args, done |-> FALSE, out |-> Empty]

\* the breach of the context of the evaluations of library templates
LibBreach == [Common(BreachTypeValue, BreachTypeValue) EXCEPT !.Value = S_ab]

\* a templater without a template
NoTemplate ==
    [Type |-> "", KeyLabel |-> Empty, Key |-> Empty, ValueLabel |-> Empty,
     Value |-> Empty, Template |-> Empty, Templates |-> << >>]

InitLib ==
    /\ template = NoTemplate
    /\ objs = <<LibBreach>>
    /\ breaches = << >>
    /\ call = NoCall
    /\ ncalls = 0
    /\ output = NewOutputters
    /\ analysis = NoAnalysis
    /\ \/ \E n \in (0 - MaxStrLen)..(MaxStrLen + 1), s \in Strings : lib = Application("truncate", <<n, s>>)
       \/ \E start, end \in (0 - 2)..(MaxSeqLen + 2), v \in Seqs :
             lib = Application("slice", <<start, end, v>>)
       \/ \E n \in NumberInputs : lib = Application("humanizeNumber", <<n>>)
       \/ \E n \in SizeInputs : lib = Application("humanizeBytes", <<n>>)
       \/ \E op \in CompareOps, a \in Values, b \in Values :
             lib = Application(op, <<a, b>>)
       \/ \E fn \in {"div", "mod"}, a \in Ints, b \in Ints :
             lib = Application(fn, <<a, b>>)

Applied(out) ==
    /\ ~lib.done
    /\ lib' = [lib EXCEPT !.done = TRUE, !.out = out]
    /\ UNCHANGED <<template, objs, breaches, call, ncalls, output, analysis>>

ApplyTruncate ==
    /\ lib.fn = "truncate"
    /\ Applied(truncate(lib.args[1], lib.args[2]))

ApplySlice ==
    /\ lib.fn = "slice"
    /\ Applied(slice(lib.args[1], lib.args[2], lib.args[3]))

ApplyHumanizeNumber ==
    /\ lib.fn = "humanizeNumber"
    /\ Applied(humanizeNumber(lib.args[1]))

ApplyHumanizeBytes ==
    /\ lib.fn = "humanizeBytes"
    /\ Applied(humanizeBytes(lib.args[1]))

ApplyCompare ==
    /\ lib.fn \in CompareOps
    /\ Applied(CASE lib.fn = "lt" -> lt(lib.args[1], lib.args[2])
                 [] lib.fn = "le" -> le(lib.args[1], lib.args[2])
                 [] lib.fn = "gt" -> gt(lib.args[1], lib.args[2])
                 [] lib.fn = "ge" -> ge(lib.args[1], lib.args[2]))

ApplyDiv ==
    /\ lib.fn = "div"
    /\ Applied(div(lib.args[1], lib.args[2]))

ApplyMod ==
    /\ lib.fn = "mod"
    /\ Applied(mod(lib.args[1], lib.args[2]))

\* the template that calls the function on the arguments, and the
\* user-defined context that holds the arguments
LibSource ==
    CASE lib.fn = "truncate" -> <<A_Truncate>>
      [] lib.fn = "div" -> <<"q", "=", A_Div>>
      [] lib.fn = "mod" -> <<"r", "=", A_Mod>>

LibContext ==
    IF lib.fn = "truncate" THEN [n |-> lib.args[1], s |-> lib.args[2]]
    ELSE [a |-> lib.args[1], b |-> lib.args[2]]

CallEvaluateLibraryTemplate ==
    /\ ncalls < MaxCalls
    /\ ~call.fault
    /\ lib.fn \in {"truncate", "div", "mod"}
    /\ Finish(EvaluateTemplateStringWithContext(Start, LibSource,
                  WithContext(TemplateContext(objs, InputPtr, "pretty"),
                              LibContext)),
              "EvaluateTemplateStringWithContext", "pretty", "", LibSource)

NextLib ==
    \/ ApplyTruncate
    \/ ApplySlice
    \/ ApplyHumanizeNumber
    \/ ApplyHumanizeBytes
    \/ ApplyCompare
    \/ ApplyDiv
    \/ ApplyMod
    \/ CallEvaluateLibraryTemplate

SpecLib == InitLib /\ [][NextLib]_vars

\* ------------------------------------------------------------ outputters
\* the plugin maps of a configuration file: the keys that are present
PluginMaps ==
    { [k \in {"format"} |-> "json"],
      [k \in {"path"} |-> <<"different.json">>],
      [k \in {"path", "format"} |->
          IF k = "path" THEN <<"different.json">> ELSE "json"],
      [k \in {"path", "format"} |-> IF k = "path" THEN NoPath ELSE "xml"] }

Configs ==
    { [n \in {name} |-> pm] : name \in {"stdout", "file", "slack"}, pm \in PluginMaps }
    \cup { [n \in {"stdout", "file"} |-> pm] : pm \in PluginMaps }

\* Outputters: the registry of the package
Outputters == {"stdout", "file"}

\* c.Flags().Set(name, value): the bound field is written and the flag is
\* marked as changed
FlagSet(o, name, value) ==
    LET o1 == [o EXCEPT !.changed = @ \cup {name}]
    IN  CASE name = "output-format" -> [o1 EXCEPT !.stdout.Format = value]
          [] name = "output-file" -> [o1 EXCEPT !.file.Path = value]
          [] name = "output-file-format" -> [o1 EXCEPT !.file.Format = value]

\* the PreRun functions installed by the two AddFlags
PreRunHooks(o) ==
    [o EXCEPT
        !.stdout.formatSetByFlag = @ \/ "output-format" \in o.changed,
        !.file.pathSetByFlag = @ \/ "output-file" \in o.changed,
        !.file.formatSetByFlag = @ \/ "output-file-format" \in o.changed,
        !.phase = "run"]

\* yaml.Unmarshal(pluginYaml, o) for the Stdout struct: the exported field
\* Format takes the value of the key "format" when the map has it
UnmarshalStdout(st, pluginMap) ==
    IF "format" \in DOMAIN pluginMap
    THEN [st EXCEPT !.Format = pluginMap["format"]] ELSE st

\* yaml.Unmarshal(pluginYaml, o) for the File struct
UnmarshalFile(fl, pluginMap) ==
    LET f1 == IF "path" \in DOMAIN pluginMap
              THEN [fl EXCEPT !.Path = pluginMap["path"]] ELSE fl
    IN  IF "format" \in DOMAIN pluginMap
        THEN [f1 EXCEPT !.Format = pluginMap["format"]] ELSE f1

\* ParseConfig: every entry of the configuration whose name is registered
\* is unmarshalled into its outputter
ParseConfig(o, raw) ==
    LET o1 == IF "stdout" \in DOMAIN raw \cap Outputters
              THEN [o EXCEPT !.stdout = UnmarshalStdout(@, raw["stdout"])]
              ELSE o
    IN  IF "file" \in DOMAIN raw \cap Outputters
        THEN [o1 EXCEPT !.file = UnmarshalFile(@, raw["file"])]
        ELSE o1

\* filepath.Dir(path); the empty sequence is "."
Dir(path) == IF path = NoPath THEN NoPath ELSE SubSeq(path, 1, Len(path) - 1)

SupportedFormats == {"pretty", "table", "json", "junit"}

\* the bytes written for a result list in a format
Rendering(format, rl) == <<format, rl>>

\* File.Output without the test of the path
FileOutput_NoSkip(o, rl, marshalOk, mkdirOk, writeOk) ==
    LET format == IF o.file.Format # "" THEN o.file.Format ELSE o.stdout.Format
        dir == Dir(o.file.Path)
        made == IF dir # NoPath /\ mkdirOk THEN {dir} ELSE {}
        ret(buf, err, created) ==
            [o EXCEPT !.fs = @ \cup created,
                      !.last = [op |-> "FileOutput", buf |-> buf, err |-> err,
                                created |-> created \ o.fs]]
    IN  IF format \notin SupportedFormats
        THEN ret(Nil, <<"unsupported output format", format>>, {})
        ELSE IF format = "json" /\ ~marshalOk
        THEN ret(Nil, <<"unable to convert result to json">>, {})
        ELSE IF dir # NoPath /\ ~mkdirOk
        THEN ret(Nil, <<"failed to create output directory">>, {})
        ELSE IF ~writeOk \/ o.file.Path = NoPath
        THEN ret(Nil, <<"failed to write output file">>, made)
        ELSE ret(Rendering(format, rl), Nil, made \cup {o.file.Path})

\* File.Output: marshalOk, mkdirOk and writeOk are the outcomes of
\* json.Marshal, os.MkdirAll and os.WriteFile
FileOutput(o, rl, marshalOk, mkdirOk, writeOk) ==
    LET format == IF o.file.Format # "" THEN o.file.Format ELSE o.stdout.Format
        dir == Dir(o.file.Path)
        made == IF dir # NoPath /\ mkdirOk THEN {dir} ELSE {}
        ret(buf, err, created) ==
            [o EXCEPT !.fs = @ \cup created,
                      !.last = [op |-> "FileOutput", buf |-> buf, err |-> err,
                                created |-> created \ o.fs]]
    IN  IF o.file.Path = NoPath THEN ret(Nil, Nil, {})
        ELSE IF format \notin SupportedFormats
        THEN ret(Nil, <<"unsupported output format", format>>, {})
        ELSE IF format = "json" /\ ~marshalOk
        THEN ret(Nil, <<"unable to convert result to json">>, {})
        ELSE IF dir # NoPath /\ ~mkdirOk
        THEN ret(Nil, <<"failed to create output directory">>, {})
        ELSE IF ~writeOk
        THEN ret(Nil, <<"failed to write output file">>, made)
        ELSE ret(Rendering(format, rl), Nil, made \cup {o.file.Path})

InitOutput ==
    /\ template = NoTemplate
    /\ objs = <<LibBreach>>
    /\ breaches = << >>
    /\ call = NoCall
    /\ ncalls = 0
    /\ lib = NoLib
    /\ output = NewOutputters
    /\ analysis = NoAnalysis

OutputStep(o) ==
    /\ output' = o
    /\ UNCHANGED <<template, objs, breaches, call, ncalls, lib, analysis>>

SetFlag ==
    /\ output.phase = "flags"
    /\ \E name \in {"output-format", "output-file", "output-file-format"} :
          \E value \in (IF name = "output-file"
                         THEN {NoPath, <<"test.xml">>, <<"different.json">>,
                               <<"results", "output.xml">>}
                         ELSE {"", "pretty", "table", "json", "junit", "xml"}) :
              OutputStep([FlagSet(output, name, value) EXCEPT
                             !.last = [NoOp EXCEPT !.op = "SetFlag"]])

PreRun ==
    /\ output.phase = "flags"
    /\ OutputStep([PreRunHooks(output) EXCEPT
                      !.last = [NoOp EXCEPT !.op = "PreRun"]])

CallParseConfig ==
    /\ output.phase = "run"
    /\ \E raw \in Configs :
          OutputStep([ParseConfig(output, raw) EXCEPT
                         !.last = [NoOp EXCEPT !.op = "ParseConfig"]])

CallFileOutput ==
    /\ output.phase = "run"
    /\ \E rl \in {"no results", "one breach"}, marshalOk \in BOOLEAN, mkdirOk \in BOOLEAN,
          writeOk \in BOOLEAN :
          OutputStep(FileOutput(output, rl, marshalOk, mkdirOk, writeOk))

NextOutput ==
    \/ SetFlag
    \/ PreRun
    \/ CallParseConfig
    \/ CallFileOutput

SpecOutput == InitOutput /\ [][NextOutput]_vars

\* ---------------------------------------------------- static analysis
\* The fact plugin static-analysis runs a tool and stores a
\* StaticAnalysisResult as JSON; the analyser static-analysis:breaches reads
\* it and reports breaches through the renderer above.  A text is the
\* sequence of its characters; a JSON array of issues on the tool's output
\* is one element of the sequence, the text of the document.

\* the tools a configuration names: the three of toolDefaults, "custom",
\* and a name toolDefaults does not have
ToolNames ==
    [phpstan |-> <<"p", "h", "p", "s", "t", "a", "n">>,
     eslint |-> <<"e", "s", "l", "i", "n", "t">>,
     pylint |-> <<"p", "y", "l", "i", "n", "t">>,
     custom |-> <<"c", "u", "s", "t", "o", "m">>,
     jsonlint |-> <<"j", "s", "o", "n", "l", "i", "n", "t">>]

\* The issues a tool may report: issue i of every document (Issue struct)
Issue(i) ==
    LET files == << <<"a", ".", "p", "h", "p">>, <<"b", ".", "p", "h", "p">> >>
        rules == << <<"r", "1">>, <<"r", "2">>, Empty >>
        severities == << <<"e", "r", "r", "o", "r">>, <<"W", "a", "r", "n", "i", "n", "g">>, <<"i", "n", "f", "o">>, <<"n", "o", "t", "e">>, Empty >>
    IN  [File |-> files[(i % 2) + 1], Line |-> i, Column |-> i % 2,
         Message |-> <<"m">>, Rule |-> rules[(i % 3) + 1],
         Severity |-> severities[((i - 1) % 5) + 1]]

\* The number of characters json.Marshal writes for the first k issues
\* (omitempty drops a zero column, an empty rule and an empty severity)
RECURSIVE IssuesJsonLen(_)
IssuesJsonLen(k) ==
    LET IssueLen(is) ==
            2 + (7 + Len(is.File) + 2) + (8 + Len(FormatInt(is.Line)))
              + (IF is.Column = 0 THEN 0 ELSE 10 + Len(FormatInt(is.Column)))
              + (11 + Len(is.Message) + 2)
              + (IF is.Rule = Empty THEN 0 ELSE 8 + Len(is.Rule) + 2)
              + (IF is.Severity = Empty THEN 0 ELSE 12 + Len(is.Severity) + 2)
    IN  IF k = 0 THEN 0
        ELSE IssuesJsonLen(k - 1) + IssueLen(Issue(k)) + (IF k > 1 THEN 1 ELSE 0)

\* The JSON documents a tool can print: document k is the array of the
\* first k issues, one token of the output
Documents ==
    [k \in 0..MaxSeqLen |->
        [text |-> "json:" \o ToString(k),
         issues |-> [i \in 1..k |-> Issue(i)],
         len |-> 2 + IssuesJsonLen(k)]]

\* strings.Contains(s, substr): in the characters of s, or in a string
\* value of a document of s (no pattern of the tables below occurs in the
\* keys or the punctuation of a document)
Contains(s, substr) ==
    LET InChars(x) ==
            \E i \in 0..(Len(x) - Len(substr)) :
                SubSeq(x, i + 1, i + Len(substr)) = substr
        InIssue(is) ==
            InChars(is.File) \/ InChars(is.Message) \/ InChars(is.Rule)
              \/ InChars(is.Severity)
    IN  \/ InChars(s)
        \/ \E n \in 1..Len(s), k \in DOMAIN Documents :
              /\ s[n] = Documents[k].text
              /\ \E i \in 1..k : InIssue(Documents[k].issues[i])

\* strings.TrimSpace
RECURSIVE TrimSpace(_)
TrimSpace(s) ==
    IF s = Empty THEN s
    ELSE IF s[1] \in {" ", "\n", "\t"} THEN TrimSpace(Tail(s))
    ELSE IF s[Len(s)] \in {" ", "\n", "\t"} THEN TrimSpace(SubSeq(s, 1, Len(s) - 1))
    ELSE s

\* p.IsSuccessfulWithIssues(stdout, stderr) with the four heuristics it
\* chooses from; an output is characters or one document
IsSuccessfulWithIssues(p, stdout, stderr) ==
    LET combinedOutput == stdout \o <<" ">> \o stderr
        trimmed == TrimSpace(stdout)
        length ==
            IF \E k \in DOMAIN Documents : trimmed = <<Documents[k].text>>
            THEN Documents[CHOOSE k \in DOMAIN Documents :
                               trimmed = <<Documents[k].text>>].len
            ELSE Len(trimmed)
        AnyOf(patterns, s) == \E i \in 1..Len(patterns) : Contains(s, patterns[i])
        \* an error pattern in the combined output decides against, then a
        \* success pattern in stdout decides for, then the length
        ToolHeuristic(errorPatterns, successPatterns) ==
            IF AnyOf(errorPatterns, combinedOutput) THEN FALSE
            ELSE IF AnyOf(successPatterns, stdout) THEN TRUE
            ELSE length > 10
        isPhpstanSuccessWithIssues ==
            ToolHeuristic(
                << <<"d", "o", "e", "s", " ", "n", "o", "t", " ", "e", "x", "i", "s", "t">>,
                   <<"n", "o", "t", " ", "f", "o", "u", "n", "d">>,
                   <<"C", "o", "n", "f", "i", "g", "u", "r", "a", "t", "i", "o", "n", " ", "e", "r", "r", "o", "r">>,
                   <<"F", "a", "t", "a", "l", " ", "e", "r", "r", "o", "r">>,
                   <<"P", "a", "r", "s", "e", " ", "e", "r", "r", "o", "r">>,
                   <<"c", "o", "u", "l", "d", " ", "n", "o", "t", " ", "b", "e", " ", "r", "e", "a", "d">>,
                   <<"i", "n", "v", "a", "l", "i", "d">>,
                   <<"U", "n", "a", "b", "l", "e", " ", "t", "o">> >>,
                << <<"F", "o", "u", "n", "d">>,
                   <<"[", "E", "R", "R", "O", "R", "]", " ", "F", "o", "u", "n", "d">>,
                   <<"[", "O", "K", "]">>,
                   <<"n", "o", " ", "e", "r", "r", "o", "r", "s">>,
                   <<"L", "i", "n", "e", " ", " ", " ">>,
                   <<"-", "-", "-", "-", "-", "-">> >>)
        isEslintSuccessWithIssues ==
            ToolHeuristic(
                << <<"N", "o", " ", "s", "u", "c", "h", " ", "f", "i", "l", "e">>,
                   <<"E", "N", "O", "E", "N", "T">>,
                   <<"C", "o", "n", "f", "i", "g", "u", "r", "a", "t", "i", "o", "n">>,
                   <<"F", "a", "i", "l", "e", "d", " ", "t", "o", " ", "l", "o", "a", "d">>,
                   <<"C", "a", "n", "n", "o", "t", " ", "f", "i", "n", "d">>,
                   <<"P", "a", "r", "s", "i", "n", "g", " ", "e", "r", "r", "o", "r">> >>,
                << <<"p", "r", "o", "b", "l", "e", "m">>,
                   <<"e", "r", "r", "o", "r">>,
                   <<"w", "a", "r", "n", "i", "n", "g">>,
                   <<"U+2716">> >>)
        isPylintSuccessWithIssues ==
            ToolHeuristic(
                << <<"N", "o", " ", "s", "u", "c", "h", " ", "f", "i", "l", "e">>,
                   <<"c", "a", "n", "'", "t", " ", "o", "p", "e", "n", " ", "f", "i", "l", "e">>,
                   <<"F", "a", "t", "a", "l", " ", "e", "r", "r", "o", "r">>,
                   <<"I", "m", "p", "o", "r", "t", "E", "r", "r", "o", "r">>,
                   <<"S", "y", "n", "t", "a", "x", "E", "r", "r", "o", "r">>,
                   <<"C", "o", "n", "f", "i", "g", "u", "r", "a", "t", "i", "o", "n", " ", "f", "i", "l", "e">> >>,
                << <<"Y", "o", "u", "r", " ", "c", "o", "d", "e", " ", "h", "a", "s", " ", "b", "e", "e", "n", " ", "r", "a", "t", "e", "d">>,
                   <<"w", "a", "r", "n", "i", "n", "g">>,
                   <<"e", "r", "r", "o", "r">>,
                   <<"c", "o", "n", "v", "e", "n", "t", "i", "o", "n">>,
                   <<"r", "e", "f", "a", "c", "t", "o", "r">> >>)
        isGenericSuccessWithIssues ==
            IF AnyOf(<< <<"n", "o", "t", " ", "f", "o", "u", "n", "d">>,
                      <<"d", "o", "e", "s", " ", "n", "o", "t", " ", "e", "x", "i", "s", "t">>,
                      <<"N", "o", " ", "s", "u", "c", "h", " ", "f", "i", "l", "e">>,
                      <<"P", "e", "r", "m", "i", "s", "s", "i", "o", "n", " ", "d", "e", "n", "i", "e", "d">>,
                      <<"C", "o", "n", "f", "i", "g", "u", "r", "a", "t", "i", "o", "n", " ", "e", "r", "r", "o", "r">>,
                      <<"F", "a", "t", "a", "l", " ", "e", "r", "r", "o", "r">>,
                      <<"c", "o", "m", "m", "a", "n", "d", " ", "n", "o", "t", " ", "f", "o", "u", "n", "d">>,
                      <<"E", "N", "O", "E", "N", "T">>,
                      <<"i", "n", "v", "a", "l", "i", "d">>,
                      <<"U", "n", "a", "b", "l", "e", " ", "t", "o">>,
                      <<"F", "a", "i", "l", "e", "d", " ", "t", "o">>,
                      <<"C", "a", "n", "n", "o", "t">> >>,
                     combinedOutput)
            THEN FALSE
            ELSE length > 0
    IN  CASE p.Tool = ToolNames.phpstan -> isPhpstanSuccessWithIssues
          [] p.Tool = ToolNames.eslint -> isEslintSuccessWithIssues
          [] p.Tool = ToolNames.pylint -> isPylintSuccessWithIssues
          [] OTHER -> isGenericSuccessWithIssues

\* p.IsSuccessExitCode(exitCode), with SuccessExitCodes of toolDefaults
IsSuccessExitCode(p, exitCode) ==
    IF p.Tool = ToolNames.custom THEN exitCode = 0
    ELSE IF p.Tool \notin {ToolNames.phpstan, ToolNames.eslint, ToolNames.pylint}
    THEN exitCode = 0
    ELSE CASE p.Tool = ToolNames.phpstan -> exitCode \in {0}
           [] p.Tool = ToolNames.eslint -> exitCode \in {0}
           [] p.Tool = ToolNames.pylint -> exitCode \in {0, 4, 8, 16}

\* p.ParseIssues(output): the output is decoded when all of it is one JSON
\* array of issues; extractIssuesFromOutput returns no issue
ParseIssues(stdout) ==
    IF TrimSpace(stdout) = Empty THEN << >>
    ELSE IF \E k \in DOMAIN Documents : stdout = <<Documents[k].text>>
    THEN Documents[CHOOSE k \in DOMAIN Documents :
                       stdout = <<Documents[k].text>>].issues
    ELSE << >>

\* Collect without the failure patterns
Collect_NoFailurePatterns(a, stdout, err) ==
    LET p == a.fact
        BuildCommand ==
            IF p.Tool = ToolNames.custom THEN p.Binary # Empty
            ELSE p.Tool \in {ToolNames.phpstan, ToolNames.eslint, ToolNames.pylint}
        result == [Success |-> FALSE, ExitCode |-> 0,
                   Output |-> TrimSpace(stdout), ErrorOutput |-> Empty,
                   Issues |-> << >>, Tool |-> p.Tool]
        r1 == [result EXCEPT !.ExitCode = err.code, !.ErrorOutput = err.msg,
                  !.Success = IsSuccessExitCode(p, err.code)]
        status ==
            IF err.code # 0
            THEN IF r1.ExitCode = 1 /\ ~r1.Success
                 THEN IF IsSuccessfulWithIssues(p, r1.Output, r1.ErrorOutput)
                      THEN [res |-> [r1 EXCEPT !.Success = TRUE], failed |-> FALSE]
                      ELSE [res |-> r1, failed |-> ~p.IgnoreError]
                 ELSE [res |-> r1, failed |-> ~p.IgnoreError /\ ~r1.Success]
            ELSE [res |-> [result EXCEPT !.ExitCode = 0, !.Success = TRUE],
                  failed |-> FALSE]
        parsed == IF p.OutputFormat = "json" \/ Contains(p.Tool, <<"j", "s", "o", "n">>)
                  THEN [status.res EXCEPT !.Issues = ParseIssues(status.res.Output)]
                  ELSE status.res
        final == parsed
        Marshal(r) ==
            LET common == [success |-> r.Success, exit_code |-> r.ExitCode,
                           output |-> r.Output, error_output |-> r.ErrorOutput,
                           tool |-> r.Tool]
            IN  IF Len(r.Issues) = 0 THEN common
                ELSE [k \in DOMAIN common \cup {"issues"} |->
                         IF k = "issues" THEN r.Issues ELSE common[k]]
    IN  IF ~BuildCommand
        THEN [a EXCEPT !.phase = "collected", !.errors = @ + 1]
        ELSE [a EXCEPT !.phase = "collected",
                 !.errors = IF status.failed THEN @ + 1 ELSE @,
                 !.stdout = stdout, !.err = err,
                 !.stored = TRUE, !.data = Marshal(final)]

\* p.Collect(): the command is built (BuildCommand fails for "custom"
\* without a binary and for a tool toolDefaults does not have) and run; err
\* is the error of commander.Output(), code 0 for nil; the result is built
\* from the output and the error, the issues are parsed, the failure
\* patterns applied, and the result stored as JSON (json.Marshal leaves
\* "issues" out when empty)
Collect(a, stdout, err) ==
    LET p == a.fact
        BuildCommand ==
            IF p.Tool = ToolNames.custom THEN p.Binary # Empty
            ELSE p.Tool \in {ToolNames.phpstan, ToolNames.eslint, ToolNames.pylint}
        result == [Success |-> FALSE, ExitCode |-> 0,
                   Output |-> TrimSpace(stdout), ErrorOutput |-> Empty,
                   Issues |-> << >>, Tool |-> p.Tool]
        r1 == [result EXCEPT !.ExitCode = err.code, !.ErrorOutput = err.msg,
                  !.Success = IsSuccessExitCode(p, err.code)]
        status ==
            IF err.code # 0
            THEN IF r1.ExitCode = 1 /\ ~r1.Success
                 THEN IF IsSuccessfulWithIssues(p, r1.Output, r1.ErrorOutput)
                      THEN [res |-> [r1 EXCEPT !.Success = TRUE], failed |-> FALSE]
                      ELSE [res |-> r1, failed |-> ~p.IgnoreError]
                 ELSE [res |-> r1, failed |-> ~p.IgnoreError /\ ~r1.Success]
            ELSE [res |-> [result EXCEPT !.ExitCode = 0, !.Success = TRUE],
                  failed |-> FALSE]
        parsed == IF p.OutputFormat = "json" \/ Contains(p.Tool, <<"j", "s", "o", "n">>)
                  THEN [status.res EXCEPT !.Issues = ParseIssues(status.res.Output)]
                  ELSE status.res
        final == IF \E i \in 1..Len(p.FailurePatterns) :
                       \/ Contains(parsed.Output, p.FailurePatterns[i])
                       \/ Contains(parsed.ErrorOutput, p.FailurePatterns[i])
                 THEN [parsed EXCEPT !.Success = FALSE]
                 ELSE parsed
        Marshal(r) ==
            LET common == [success |-> r.Success, exit_code |-> r.ExitCode,
                           output |-> r.Output, error_output |-> r.ErrorOutput,
                           tool |-> r.Tool]
            IN  IF Len(r.Issues) = 0 THEN common
                ELSE [k \in DOMAIN common \cup {"issues"} |->
                         IF k = "issues" THEN r.Issues ELSE common[k]]
    IN  IF ~BuildCommand
        THEN [a EXCEPT !.phase = "collected", !.errors = @ + 1]
        ELSE [a EXCEPT !.phase = "collected",
                 !.errors = IF status.failed THEN @ + 1 ELSE @,
                 !.stdout = stdout, !.err = err,
                 !.stored = TRUE, !.data = Marshal(final)]

\* ------------------------------------------------------------ the analyser
\* json.Unmarshal(rawData, &result) of what Collect stored
Unmarshal(rawData) ==
    [Success |-> rawData.success, ExitCode |-> rawData.exit_code,
     Output |-> rawData.output, ErrorOutput |-> rawData.error_output,
     Issues |-> IF "issues" \in DOMAIN rawData THEN rawData.issues ELSE << >>,
     Tool |-> rawData.tool]

\* p.FilterIssues(issues), with MeetsSeverity and IsRuleIgnored
FilterIssues(p, issues) ==
    LET LowerChar(c) ==
            CASE c = "W" -> "w" [] c = "E" -> "e" [] c = "I" -> "i" [] OTHER -> c
        ToLower(s) == [i \in 1..Len(s) |-> LowerChar(s[i])]
        \* severityLevels; 0 for a key the map does not have
        severityLevels(s) ==
            CASE s = <<"e", "r", "r", "o", "r">> -> 3
              [] s = <<"w", "a", "r", "n", "i", "n", "g">> -> 2
              [] s = <<"i", "n", "f", "o">> -> 1
              [] OTHER -> 0
        MeetsSeverity(issueSeverity, minSeverity) ==
            LET issueLevel == severityLevels(ToLower(issueSeverity))
                minLevel == severityLevels(ToLower(minSeverity))
            IN  IF issueLevel = 0 \/ minLevel = 0 THEN TRUE
                ELSE issueLevel >= minLevel
        IsRuleIgnored(rule) ==
            \E i \in 1..Len(p.IgnoreRules) : rule = p.IgnoreRules[i]
        Kept(issue) ==
            /\ ~(p.MinSeverity # Empty
                   /\ ~MeetsSeverity(issue.Severity, p.MinSeverity))
            /\ ~(Len(p.IgnoreRules) > 0 /\ IsRuleIgnored(issue.Rule))
    IN  IF Len(issues) = 0 THEN issues ELSE SelectSeq(issues, Kept)

\* p.reportDetailedIssues(issues, tool), the files of the map fileIssues
\* visited in this order: the breaches it hands to breach.EvaluateTemplate,
\* one for a file
reportDetailedIssues(issues, tool, order) ==
    LET IssueString(issue) ==
            <<"l", "i", "n", "e", " ">> \o FormatInt(issue.Line)
              \o (IF issue.Column > 0
                  THEN <<",", " ", "c", "o", "l", "u", "m", "n", " ">>
                         \o FormatInt(issue.Column)
                  ELSE Empty)
              \o <<":", " ">> \o issue.Message
              \o (IF issue.Rule # Empty
                  THEN <<" ", "(">> \o issue.Rule \o <<")">> ELSE Empty)
              \o (IF issue.Severity # Empty
                  THEN <<" ", "[">> \o issue.Severity \o <<"]">> ELSE Empty)
        Breach(file) ==
            LET InFile(issue) == issue.File = file
                ofFile == SelectSeq(issues, InFile)
            IN  [NewBreach(BreachTypeKeyValues) EXCEPT
                    !.Key = tool \o <<" ", "i", "s", "s", "u", "e", "s", " ", "i", "n", " ">> \o file,
                    !.Values = [i \in 1..Len(ofFile) |-> IssueString(ofFile[i])]]
    IN  [n \in 1..Len(order) |-> Breach(order[n])]

\* shouldReport at the threshold as well as above it
ShouldReport_AtThreshold(p, result, filteredIssues) ==
    IF p.MaxIssues = 0
    THEN Len(filteredIssues) > 0 \/ (result.Output # Empty /\ ~result.Success)
    ELSE Len(filteredIssues) >= p.MaxIssues

\* shouldReport of Analyse
ShouldReport(p, result, filteredIssues) ==
    IF p.MaxIssues = 0
    THEN Len(filteredIssues) > 0 \/ (result.Output # Empty /\ ~result.Success)
    ELSE Len(filteredIssues) > p.MaxIssues

\* p.Analyse() on the data the fact stored (format FormatRaw, the JSON
\* Collect marshalled; nothing when no data was stored): the breaches it
\* hands to breach.EvaluateTemplate, in the order of its calls; order is
\* the order of the range over fileIssues
Analyse(p, a, order) ==
    LET result == Unmarshal(a.data)
        ValueBreach(value) == [NewBreach(BreachTypeValue) EXCEPT !.Value = value]
        failure ==
            IF p.CheckSuccess /\ ~result.Success
            THEN << ValueBreach(result.Tool
                      \o <<" ", "f", "a", "i", "l", "e", "d", " ", "w", "i", "t", "h", " ", "e", "x", "i", "t", " ", "c", "o", "d", "e", " ">>
                      \o FormatInt(result.ExitCode)) >>
            ELSE << >>
        filteredIssues == FilterIssues(p, result.Issues)
    IN  IF ~a.stored THEN << >>
        ELSE IF ~p.CheckIssues THEN failure
        ELSE IF ~ShouldReport(p, result, filteredIssues) THEN failure
        ELSE IF Len(result.Issues) > 0
        THEN failure \o reportDetailedIssues(filteredIssues, result.Tool, order)
        ELSE IF result.Output # Empty
        THEN Append(failure,
                 ValueBreach(result.Tool
                   \o <<" ", "f", "o", "u", "n", "d", " ", "i", "s", "s", "u", "e", "s", ":", "\n">>
                   \o result.Output))
        ELSE Append(failure,
                 ValueBreach(result.Tool \o <<" ", "d", "e", "t", "e", "c", "t", "e", "d", " ">>
                   \o FormatInt(Len(filteredIssues))
                   \o <<" ", "i", "s", "s", "u", "e", "(", "s", ")">>))

\* the calls breach.EvaluateTemplate(p, &X{...}, p.Remediation) of Analyse
\* from its n-th on, in the order of bs: each breach is constructed on the
\* heap and rendered with the analyser's template; nothing follows a fault
RECURSIVE Report(_, _, _, _, _)
Report(st, t, p, bs, n) ==
    IF n > Len(bs) \/ st.fault THEN st
    ELSE CHOOSE r \in { Report(s2, t, p, bs, n + 1) :
                           s2 \in { EvaluateTemplate(s1, t, Len(s1.objs), p.Remediation) :
                                      s1 \in {[st EXCEPT !.objs = Append(@, bs[n])]} } } : TRUE

\* the fact plugin as configured (a binary is set for "custom" only), the
\* analyser as NewStaticAnalysisBreaches leaves it, no template
InitAnalyse ==
    /\ template = NoTemplate
    /\ objs = << >>
    /\ breaches = << >>
    /\ call = NoCall
    /\ ncalls = 0
    /\ lib = NoLib
    /\ output = NewOutputters
    /\ \E tool \in {"phpstan", "eslint", "pylint", "custom", "jsonlint"},
          b \in {Empty, <<"x">>}, ie \in BOOLEAN, f \in {"", "json"},
          fp \in { << >>, << <<"F", "a", "t", "a", "l", " ", "e", "r", "r", "o", "r">> >>,
                   << <<"P", "a", "r", "s", "e", " ", "e", "r", "r", "o", "r">>, <<"o", "k">> >> } :
          /\ tool # "custom" => b = Empty
          /\ analysis =
               [phase |-> "configured",
                fact |-> [Tool |-> ToolNames[tool], Binary |-> b,
                          IgnoreError |-> ie, OutputFormat |-> f,
                          FailurePatterns |-> fp],
                stdout |-> Empty, err |-> [code |-> 0, msg |-> Empty],
                errors |-> 0, stored |-> FALSE,
                data |-> [success |-> FALSE, exit_code |-> 0, output |-> Empty,
                          error_output |-> Empty, tool |-> Empty],
                analyser |-> [CheckSuccess |-> TRUE, CheckIssues |-> TRUE,
                              MinSeverity |-> Empty, IgnoreRules |-> << >>,
                              MaxIssues |-> 0, Remediation |-> "nil"],
                fault |-> FALSE]

\* the tool runs: what it writes to its standard output, and the error of
\* commander.Output() (code 0: nil)
CallCollect ==
    /\ analysis.phase = "configured"
    /\ \E stdout \in { Empty, <<"o", "k", "\n">>,
                      <<"F", "o", "u", "n", "d", " ", "2", " ", "e", "r", "r", "o", "r", "s">>,
                      <<"F", "a", "t", "a", "l", " ", "e", "r", "r", "o", "r">>,
                      <<"l", "i", "n", "e", " ", "3", ":", " ", "u", "n", "u", "s", "e", "d", " ", "x">> }
                    \cup { <<Documents[k].text>> : k \in DOMAIN Documents },
          code \in {0, 1, 4},
          msg \in {Empty, <<"F", "a", "t", "a", "l", " ", "e", "r", "r", "o", "r">>} :
          /\ code = 0 => msg = Empty
          /\ analysis' = Collect(analysis, stdout, [code |-> code, msg |-> msg])
    /\ UNCHANGED <<template, objs, breaches, call, ncalls, lib, output>>

\* the analyser as configured reads the data; Analyse reports the failure
\* of the tool and then one breach for each file with issues, the files in
\* any order (the order of a Go map range)
CallAnalyse ==
    /\ analysis.phase = "collected"
    /\ \E p \in [CheckSuccess : BOOLEAN, CheckIssues : BOOLEAN,
                 MinSeverity : {Empty, <<"w", "a", "r", "n", "i", "n", "g">>},
                 IgnoreRules : {<< >>, << <<"r", "2">> >>},
                 MaxIssues : 0..MaxValues, Remediation : {"nil"}] :
          LET filtered == FilterIssues(p, Unmarshal(analysis.data).Issues)
              files == { filtered[i].File : i \in 1..Len(filtered) }
          IN  \E order \in [1..Cardinality(files) -> files] :
                /\ \A i, j \in DOMAIN order : order[i] = order[j] => i = j
                /\ \E bs \in {Analyse(p, analysis, order)} :
                   \E s3 \in {Report(Start, template, p, bs, 1)} :
                      /\ objs' = s3.objs
                      /\ breaches' = s3.breaches
                      /\ analysis' = [analysis EXCEPT !.phase = "analysed",
                                         !.analyser = p, !.fault = s3.fault]
    /\ UNCHANGED <<template, call, ncalls, lib, output>>

NextAnalyse ==
    \/ CallCollect
    \/ CallAnalyse

SpecAnalyse == InitAnalyse /\ [][NextAnalyse]_vars

\* --------------------------------------------------------------- vocabulary
\* the last call was a render call
Rendered == call.op \in {"EvaluateTemplateWithContext", "EvaluateTemplate"}

\* the analyser's breach as it was when the call was made
In == call.pre[InputPtr]

\* the pointers the call added to the templater, in order
Added == SubSeq(breaches, Len(call.preBreaches) + 1, Len(breaches))

\* the breach added last, which is the one emitted for the finding
EmittedPtr == breaches[Len(breaches)]
Emitted == objs[EmittedPtr]

\* the value returned by an evaluation of a source against the breach as it
\* was when the call was made
Outcome(source) ==
    LET ctx == TemplateContext(call.pre, InputPtr, call.outputFormat)
        p == Parse(source)
        e == Execute(source, ctx, call.pre)
    IN  IF p.err THEN [failed |-> TRUE, label |-> ErrParse, text |-> p.text, ret |-> source]
        ELSE IF e.err THEN [failed |-> TRUE, label |-> ErrRender, text |-> e.text, ret |-> source]
        ELSE [failed |-> FALSE, label |-> "", text |-> Empty, ret |-> e.buf]

\* the primary value field of a breach
Primary(b) == IF b.variant = BreachTypeKeyValues THEN b.Values ELSE b.Value
AsPrimary(b, str) == IF b.variant = BreachTypeKeyValues THEN <<str>> ELSE str

LegacyFieldsEmpty(t) ==
    t.KeyLabel = Empty /\ t.Key = Empty /\ t.ValueLabel = Empty /\ t.Value = Empty

IsSynthetic(b, label, text) ==
    b = [NewBreach(BreachTypeValue) EXCEPT !.ValueLabel = <<label>>, !.Value = text]

\* -------------------------------------------------------------------- C1
\* C1: when Templates holds a non-empty entry for the requested output
\* format, the render call evaluates that entry and nothing else, and the
\* emitted breach carries the result in its primary value field, whatever
\* Template, Templates["default"] and the legacy fields are.
C1_HasFormatEntry ==
    /\ Rendered
    /\ call.outputFormat \in DOMAIN template.Templates
    /\ template.Templates[call.outputFormat] # Empty

C1_FormatEntryWins ==
    C1_HasFormatEntry =>
        /\ call.evals = <<template.Templates[call.outputFormat]>>
        /\ Primary(Emitted) =
             AsPrimary(In, Outcome(template.Templates[call.outputFormat]).ret)

C1_Witness ==
    /\ C1_HasFormatEntry
    /\ call.outputFormat = "json"
    /\ template.Templates["json"] = Src_A
    /\ template.Template = Src_B
    /\ "default" \in DOMAIN template.Templates
    /\ template.Value = Src_Upper
    /\ Emitted.Value = <<"J", ":", "a", "b">>

\* -------------------------------------------------------------------- C2
\* C2: when Templates is non-empty but has neither an entry for the output
\* format nor a "default" entry, and Template is non-empty, the breach is
\* rendered in enhanced mode with Template.
C2_FallsThroughToTemplate ==
    ( /\ Rendered
      /\ DOMAIN template.Templates # {}
      /\ call.outputFormat \notin DOMAIN template.Templates
      /\ "default" \notin DOMAIN template.Templates
      /\ template.Template # Empty )
    => /\ call.evals = <<template.Template>>
       /\ Primary(Emitted) = AsPrimary(In, Outcome(template.Template).ret)

\* -------------------------------------------------------------------- C3
\* C3: a template with Type, Template and Templates unset and only Value set
\* to an upper-casing source is applied in legacy mode: a ValueBreach with
\* Value v is emitted with Value upper(v) and every other field unchanged.
C3_LegacyWithoutType ==
    ( /\ Rendered
      /\ template.Type = "" /\ template.Template = Empty
      /\ DOMAIN template.Templates = {}
      /\ template.KeyLabel = Empty /\ template.Key = Empty
      /\ template.ValueLabel = Empty /\ template.Value = Src_Upper
      /\ In.variant = BreachTypeValue )
    => Emitted = [In EXCEPT !.Value = ToUpper(In.Value),
                           !.Remediator = RemediatorFromInterface(call.remediation)]

\* -------------------------------------------------------------------- C4
\* C4: after a render call the KeyLabel, Key, ValueLabel and Value/Values of
\* the breach passed in are what they were before the call, and when a
\* template was applied the emitted breach is a newly constructed object.
C4_InputNotMutated ==
    Rendered =>
        /\ objs[InputPtr].KeyLabel = In.KeyLabel
        /\ objs[InputPtr].Key = In.Key
        /\ objs[InputPtr].ValueLabel = In.ValueLabel
        /\ objs[InputPtr].Value = In.Value
        /\ objs[InputPtr].Values = In.Values
        /\ (~IsRaw(template) => EmittedPtr > Len(call.pre))

\* -------------------------------------------------------------------- C5
\* C5: in enhanced mode the emitted breach equals the input breach in every
\* field except the primary value field (and the remediator attached).
C5_EnhancedCopiesAllOtherFields ==
    ( /\ Rendered
      /\ ~IsRaw(template)
      /\ ResolveTemplate(template, call.outputFormat) # Empty )
    => /\ Emitted.variant = In.variant
       /\ Emitted.CheckName = In.CheckName
       /\ Emitted.CheckType = In.CheckType
       /\ Emitted.Severity = In.Severity
       /\ Emitted.BreachType = In.BreachType
       /\ Emitted.ValueLabel = In.ValueLabel
       /\ Emitted.KeyLabel = In.KeyLabel
       /\ Emitted.Key = In.Key
       /\ Emitted.ExpectedValue = In.ExpectedValue

\* -------------------------------------------------------------------- C6
\* C6: a direct evaluation of a source that fails to compile (it holds a
\* malformed action) or fails to execute (it reads a field that the context
\* or the breach does not have) returns the source itself, not the text
\* written before the failure, and appends exactly one synthetic ValueBreach
\* whose ValueLabel names the failure class and whose Value is the error text.
C6_DirectCall == call.op = "EvaluateTemplateStringWithContext"

C6_FailsToCompile(source) == \E i \in 1..Len(source) : source[i] = A_Malformed

C6_FailsToExecute(source, b) ==
    /\ ~C6_FailsToCompile(source)
    /\ \E i \in 1..Len(source) :
          \/ source[i] = A_NoField
          \/ source[i] \in {A_Value, A_Upper} /\ b.variant = BreachTypeKeyValues
          \/ source[i] = A_Key /\ b.variant = BreachTypeValue

C7_EnhancedFails ==
    /\ Rendered
    /\ ~IsRaw(template)
    /\ ResolveTemplate(template, call.outputFormat) # Empty
    /\ Outcome(ResolveTemplate(template, call.outputFormat)).failed

C7_BrokenTemplateStillEmits ==
    C7_EnhancedFails =>
        LET source == ResolveTemplate(template, call.outputFormat)
        IN  /\ Len(Added) = 2
            /\ IsSynthetic(objs[Added[1]], Outcome(source).label, Outcome(source).text)
            /\ objs[Added[2]].variant = In.variant
            /\ Primary(objs[Added[2]]) = AsPrimary(In, source)

C7_Witness ==
    /\ C7_EnhancedFails
    /\ template.Template = Src_NoField
    /\ In.variant = BreachTypeKeyValue
    /\ Len(Added) = 2
    /\ objs[Added[1]].ValueLabel = <<ErrRender>>
    /\ objs[Added[2]].Value = Src_NoField

\* -------------------------------------------------------------------- C8
\* C8: with none of Type, Template, Templates, KeyLabel, Key, ValueLabel and
\* Value set, a render call evaluates no template and adds exactly the breach
\* passed in, unchanged but for the remediator attached to it.
C8_NothingSet ==
    /\ Rendered
    /\ template.Type = "" /\ template.Template = Empty
    /\ DOMAIN template.Templates = {}
    /\ LegacyFieldsEmpty(template)

C8_RawPassthrough ==
    C8_NothingSet =>
        /\ call.evals = << >>
        /\ Added = <<InputPtr>>
        /\ Len(objs) = Len(call.pre)
        /\ objs[InputPtr] =
             [In EXCEPT !.Remediator = RemediatorFromInterface(call.remediation)]

C8_Witness ==
    /\ C8_NothingSet
    /\ In.variant = BreachTypeKeyValues
    /\ Len(In.Values) = 2
    /\ call.outputFormat = "json"
    /\ Emitted.Values = In.Values
    /\ Emitted.Remediator = RemediatorFromInterface("command")

\* -------------------------------------------------------------------- C9
\* C9: in legacy mode every field template that is set is evaluated, in the
\* order KeyLabel, Key, ValueLabel, Value, and its result is the value of
\* that field of the emitted breach where the variant has the field; a field
\* whose template is empty keeps the value the breach had; Values is kept.
C9_LegacyMode ==
    /\ Rendered
    /\ ~IsRaw(template)
    /\ ResolveTemplate(template, call.outputFormat) = Empty

C9_Field(source, original) ==
    IF source # Empty THEN Outcome(source).ret ELSE original

C9_NonEmpty(sources) == SelectSeq(sources, LAMBDA x : x # Empty)

C10_EnhancedWithLegacy ==
    /\ Rendered
    /\ ResolveTemplate(template, call.outputFormat) # Empty
    /\ ~LegacyFieldsEmpty(template)

C10_EnhancedOverridesLegacy ==
    C10_EnhancedWithLegacy =>
        LET source == ResolveTemplate(template, call.outputFormat)
        IN  /\ call.evals = <<source>>
            /\ Primary(Emitted) = AsPrimary(In, Outcome(source).ret)
            /\ Len(Added) = IF Outcome(source).failed THEN 2 ELSE 1
            /\ HasField(In, "Key") =>
                  /\ Emitted.KeyLabel = In.KeyLabel
                  /\ Emitted.Key = In.Key
                  /\ Emitted.ValueLabel = In.ValueLabel

C10_Witness ==
    /\ C10_EnhancedWithLegacy
    /\ template.Template = Src_B
    /\ template.Value = Src_Malformed
    /\ template.KeyLabel = S_File
    /\ In.variant = BreachTypeKeyValue
    /\ Len(Added) = 1
    /\ Emitted.Value = <<"N", ":", "A", "B">>
    /\ Emitted.KeyLabel = In.KeyLabel

\* ------------------------------------------------------------------- C11
\* C11: the breach a render call emits for the finding has the variant of the
\* input and a BreachType field equal to that variant's tag, in raw, enhanced
\* and legacy mode, whatever Type the template names.
C11_TagMatchesVariant ==
    Rendered =>
        /\ Emitted.variant = In.variant
        /\ Emitted.BreachType = In.variant

\* ------------------------------------------------------------------- C12
\* C12: in enhanced mode a KeyValuesBreach with zero, one or more Values is
\* emitted as a KeyValuesBreach whose Values holds exactly the rendered
\* string, with Key, KeyLabel and ValueLabel of the input.
C12_EnhancedKeyValues ==
    /\ Rendered
    /\ ~IsRaw(template)
    /\ ResolveTemplate(template, call.outputFormat) # Empty
    /\ In.variant = BreachTypeKeyValues

C12_ValuesCollapse ==
    C12_EnhancedKeyValues =>
        /\ Emitted.variant = BreachTypeKeyValues
        /\ Len(Emitted.Values) = 1
        /\ Emitted.Values[1] =
             Outcome(ResolveTemplate(template, call.outputFormat)).ret
        /\ Emitted.Key = In.Key
        /\ Emitted.KeyLabel = In.KeyLabel
        /\ Emitted.ValueLabel = In.ValueLabel

C12_Witness ==
    /\ C12_EnhancedKeyValues
    /\ Len(In.Values) = 2
    /\ In.KeyLabel = <<"m">>
    /\ ResolveTemplate(template, call.outputFormat) = Src_P
    /\ Emitted.Values = << <<"P", ":", "k">> >>
    /\ Emitted.KeyLabel = <<"m">>

\* ------------------------------------------------------------------- C13
\* C13: when Templates is non-empty, has no entry for the output format and
\* has a non-empty "default" entry, the render call evaluates the "default"
\* entry and nothing else, also when Template is set.
C13_DefaultApplies ==
    /\ Rendered
    /\ call.outputFormat \notin DOMAIN template.Templates
    /\ "default" \in DOMAIN template.Templates
    /\ template.Templates["default"] # Empty

C13_DefaultEntryWins ==
    C13_DefaultApplies =>
        /\ call.evals = <<template.Templates["default"]>>
        /\ Primary(Emitted) =
             AsPrimary(In, Outcome(template.Templates["default"]).ret)
        /\ EmittedPtr > Len(call.pre)

C13_Witness ==
    /\ C13_DefaultApplies
    /\ call.outputFormat = "pretty"
    /\ template.Templates["default"] = Src_D
    /\ template.Template = Src_B
    /\ In.variant = BreachTypeValue
    /\ Emitted.Value = <<"D", ":", "h">>

\* ------------------------------------------------- library vocabulary
\* the function fn was applied to the arguments of lib
AppliedFn(fn) == lib.fn = fn /\ lib.done

\* the last call evaluated the template that calls fn on the arguments of lib
EvaluatedFn(fn) ==
    /\ lib.fn = fn
    /\ call.op = "EvaluateTemplateStringWithContext"
    /\ call.source = LibSource

\* the call added no breach to the templater
NoBreachAdded == breaches = call.preBreaches /\ objs = call.pre

\* ------------------------------------------------------------------- C15
\* C15: the evaluation of a template that calls truncate with a negative
\* length and a non-empty string adds no error breach and returns the
\* rendered text, not the source.
C15_NegativeTruncate ==
    /\ EvaluatedFn("truncate")
    /\ lib.args[1] < 0
    /\ lib.args[2] # Empty

C15_NegativeTruncateRenders ==
    C15_NegativeTruncate =>
        /\ NoBreachAdded
        /\ call.ret # call.source

\* ------------------------------------------------------------------- C16
\* C16: for n >= 0, truncate(n, s) is s when len(s) <= n, the first n bytes
\* of s when len(s) > n and n <= 3, and else the first n-3 bytes of s
\* followed by "..."; whenever len(s) > n the result has exactly n bytes.
C16_TruncateShape ==
    (AppliedFn("truncate") /\ lib.args[1] >= 0) =>
        LET n == lib.args[1]
            s == lib.args[2]
        IN  /\ ~lib.out.panic
            /\ Len(s) <= n => lib.out.out = s
            /\ (Len(s) > n /\ n <= 3) => lib.out.out = SubSeq(s, 1, n)
            /\ (Len(s) > n /\ n > 3) =>
                  lib.out.out = SubSeq(s, 1, n - 3) \o <<".", ".", ".">>
            /\ Len(s) > n => Len(lib.out.out) = n

C16_Witness ==
    /\ AppliedFn("truncate")
    /\ lib.args = <<5, <<"h", "e", "l", "l", "o", " ">> >>
    /\ lib.out = Ok(<<"h", "e", ".", ".", ".">>)

\* ------------------------------------------------------------------- C17
\* C17: slice(start, end, seq) is the elements of seq at the zero-based
\* indices from max(start, 0) up to but excluding min(end, len(seq)), the
\* empty sequence when there is no such index, and never faults.
C17_SliceClamps ==
    AppliedFn("slice") =>
        LET start == lib.args[1]
            end == lib.args[2]
            seq == lib.args[3]
            lo == IF start > 0 THEN start ELSE 0
            hi == IF end < Len(seq) THEN end ELSE Len(seq)
        IN  /\ ~lib.out.panic
            /\ lo >= hi => lib.out.out = << >>
            /\ lo < hi =>
                  /\ Len(lib.out.out) = hi - lo
                  /\ \A i \in 1..(hi - lo) : lib.out.out[i] = seq[lo + i]

C17_Witness ==
    /\ AppliedFn("slice")
    /\ lib.args = <<0 - 1, 5, <<"a", "b", "c">> >>
    /\ lib.out = Ok(<<"a", "b", "c">>)

\* ------------------------------------------------------------------- C18
\* C18: for n >= 1000, humanizeNumber(-n) is "-" followed by
\* humanizeNumber(n), and for n >= 1024, humanizeBytes(-n) is "-" followed
\* by humanizeBytes(n).
C18_NegativeScales ==
    /\ (AppliedFn("humanizeNumber") /\ lib.args[1] <= 0 - 1000) =>
          lib.out = <<"-">> \o humanizeNumber(0 - lib.args[1])
    /\ (AppliedFn("humanizeBytes") /\ lib.args[1] <= 0 - 1024) =>
          lib.out = <<"-">> \o humanizeBytes(0 - lib.args[1])

\* ------------------------------------------------------------------- C19
\* C19: lt, le, gt and ge order two numeric operands by their numeric
\* value, also when the operands have different numeric kinds.
NumericKinds == {"int", "uint", "float"}

C19_NumericOrder ==
    (/\ lib.fn \in CompareOps
     /\ lib.done
     /\ lib.args[1].kind \in NumericKinds
     /\ lib.args[2].kind \in NumericKinds) =>
        LET a == lib.args[1].num
            b == lib.args[2].num
        IN  lib.out = CASE lib.fn = "lt" -> a < b
                        [] lib.fn = "le" -> a <= b
                        [] lib.fn = "gt" -> a > b
                        [] lib.fn = "ge" -> a >= b

\* ------------------------------------------------------------------- C20
\* C20: div(a, 0) and mod(a, 0) are 0; for b # 0, div(a, b) and mod(a, b)
\* are the quotient q and the remainder r of the integer division of a by
\* b (a = q*b + r, |r| < |b|, r zero or of the sign of a); neither faults,
\* and a template that calls them renders the number and adds no breach.
IsQuotient(q, a, b) ==
    LET r == a - q * b
    IN  Abs(r) < Abs(b) /\ r * a >= 0

IsRemainder(r, a, b) ==
    /\ Abs(r) < Abs(b)
    /\ r * a >= 0
    /\ \E q \in (0 - Abs(a))..Abs(a) : a = q * b + r

C20_Expected(fn, v, a, b) ==
    IF b = 0 THEN v = 0
    ELSE IF fn = "div" THEN IsQuotient(v, a, b)
    ELSE IsRemainder(v, a, b)

C20_DivModTotal ==
    \A fn \in {"div", "mod"} :
        /\ AppliedFn(fn) =>
              /\ ~lib.out.panic
              /\ C20_Expected(fn, lib.out.out, lib.args[1], lib.args[2])
        /\ EvaluatedFn(fn) =>
              /\ NoBreachAdded
              /\ Len(call.ret) > 2
              /\ \E v \in Ints :
                    /\ call.ret = SubSeq(call.source, 1, 2) \o FormatInt(v)
                    /\ C20_Expected(fn, v, lib.args[1], lib.args[2])

C20_Witness ==
    /\ EvaluatedFn("div")
    /\ lib.done
    /\ lib.args = <<0 - 7, 0>>
    /\ lib.out = Ok(0)
    /\ call.ret = <<"q", "=", "0">>
    /\ breaches = << >>

\* ------------------------------------------------------------------- C26
\* C26: a render call adds one breach for the finding plus one synthetic
\* breach per template evaluation that failed, so a call whose evaluations
\* all succeed adds exactly one breach; the finding's breach comes last.
FailedEvals ==
    Cardinality({ i \in 1..Len(call.evals) : Outcome(call.evals[i]).failed })

C26_OnePerFinding ==
    Rendered =>
        /\ Len(Added) = 1 + FailedEvals
        /\ \A i \in 1..(Len(Added) - 1) :
              objs[Added[i]].ValueLabel \in {<<ErrParse>>, <<ErrRender>>}
        /\ objs[Added[Len(Added)]].variant = In.variant

C26_Witness ==
    /\ Rendered
    /\ In.variant = BreachTypeKeyValues
    /\ call.evals = <<S_File, Src_Key, S_Err, Src_Upper>>
    /\ FailedEvals = 1
    /\ Len(Added) = 2
    /\ objs[Added[1]].ValueLabel = <<ErrRender>>

EvalAgainst(b, source) ==
    Execute(source, TemplateContext(<<b>>, InputPtr, call.outputFormat), <<b>>)

C29_KeyAndValueTemplates ==
    /\ C9_LegacyMode
    /\ template.Key # Empty
    /\ template.Value # Empty
    /\ In.variant = BreachTypeKeyValue
    /\ ~Parse(template.Key).err
    /\ ~Parse(template.Value).err

C29_FieldsSeeOriginal ==
    C29_KeyAndValueTemplates =>
        /\ ~EvalAgainst(In, template.Key).err =>
              Emitted.Key = EvalAgainst(In, template.Key).buf
        /\ ~EvalAgainst(In, template.Value).err =>
              Emitted.Value = EvalAgainst(In, template.Value).buf

C29_Witness ==
    /\ C29_KeyAndValueTemplates
    /\ template.Key = Src_P
    /\ template.Value = Src_Key
    /\ In.Key = <<"k">>
    /\ Emitted.Key = <<"P", ":", "k">>
    /\ Emitted.Value = <<"k">>
    /\ EvalAgainst(Emitted, template.Value).buf = <<"P", ":", "k">>

\* ------------------------------------------------------------------- C30
\* C30: a call of EvaluateTemplate leaves the templater and the breaches as
\* EvaluateTemplateWithContext with the format "pretty" leaves them, with
\* the same breaches added in the same order; the only sources it
\* evaluates are the "pretty" entry, the "default" entry, Template and the
\* legacy fields.
C30_ViaEvaluateTemplate == call.op = "EvaluateTemplate"

C30_PrettySources ==
    { template.Templates[f] : f \in DOMAIN template.Templates \cap {"pretty", "default"} }
        \cup {template.Template, template.KeyLabel, template.Key,
              template.ValueLabel, template.Value}

C30_SameAsPretty ==
    C30_ViaEvaluateTemplate =>
        LET st == EvaluateTemplateWithContext(
                      [objs |-> call.pre, breaches |-> call.preBreaches,
                       evals |-> << >>, ret |-> Empty, fault |-> FALSE],
                      template, InputPtr, call.remediation, "pretty")
        IN  /\ objs = st.objs
            /\ breaches = st.breaches
            /\ call.evals = st.evals
            /\ \A i \in 1..Len(call.evals) : call.evals[i] \in C30_PrettySources

C30_Witness ==
    /\ C30_ViaEvaluateTemplate
    /\ DOMAIN template.Templates = {"json", "pretty"}
    /\ template.Templates["json"] = Src_Malformed
    /\ call.evals = <<Src_P>>
    /\ In.variant = BreachTypeKeyValue
    /\ Len(Added) = 1
    /\ Emitted.Value = <<"P", ":", "k">>

C21_FlagsOverConfig ==
    [][(output.phase = "run" /\ output'.last.op = "ParseConfig") =>
          /\ "output-format" \in output.changed =>
                output'.stdout.Format = output.stdout.Format
          /\ "output-file" \in output.changed =>
                output'.file.Path = output.file.Path
          /\ "output-file-format" \in output.changed =>
                output'.file.Format = output.file.Format]_vars

\* ------------------------------------------------------------------- C25
\* C25: File.Output with an empty Path returns a nil output and a nil error
\* and creates no file and no directory, whatever the Format and the
\* result list.
C25_EmptyPath == output.last.op = "FileOutput" /\ output.file.Path = NoPath

Stored == analysis.phase \in {"collected", "analysed"} /\ analysis.stored

\* the analyser has read the stored result
Analysed == analysis.phase = "analysed" /\ analysis.stored

\* the result the fact plugin stored
StoredResult == Unmarshal(analysis.data)

\* the breaches the analyser's templater holds
Reported == [i \in 1..Len(breaches) |-> objs[breaches[i]]]

FoundIssuesText == <<" ", "f", "o", "u", "n", "d", " ", "i", "s", "s", "u", "e", "s", ":", "\n">>
DetectedText == <<" ", "d", "e", "t", "e", "c", "t", "e", "d", " ">>

HasPrefix(s, prefix) ==
    Len(s) >= Len(prefix) /\ SubSeq(s, 1, Len(prefix)) = prefix

\* a breach that reports issues: the issues of a file, the raw output of
\* the tool, or a number of issues; not the failure of the tool
IsIssueBreach(b) ==
    \/ b.variant = BreachTypeKeyValues
    \/ /\ b.variant = BreachTypeValue
       /\ \/ HasPrefix(b.Value, StoredResult.Tool \o FoundIssuesText)
          \/ HasPrefix(b.Value, StoredResult.Tool \o DetectedText)

\* a configured failure pattern occurs in what the tool wrote
C22_FailurePatternOccurs ==
    \E i \in 1..Len(analysis.fact.FailurePatterns) :
        \/ Contains(TrimSpace(analysis.stdout), analysis.fact.FailurePatterns[i])
        \/ Contains(analysis.err.msg, analysis.fact.FailurePatterns[i])

C23_RawOutputReported ==
    (/\ Analysed
     /\ analysis.analyser.CheckIssues
     /\ analysis.analyser.MaxIssues = 0
     /\ Len(StoredResult.Issues) = 0
     /\ StoredResult.Output # Empty
     /\ StoredResult.ExitCode = 1
     /\ StoredResult.Success)
    => \E i \in 1..Len(Reported) :
          /\ Reported[i].variant = BreachTypeValue
          /\ Reported[i].Value =
                 StoredResult.Tool \o FoundIssuesText \o StoredResult.Output

\* the number of issues that remain after the filtering by severity and by
\* ignored rules
C24_Remaining == Len(FilterIssues(analysis.analyser, StoredResult.Issues))

\* C24: with check-issues enabled and max-issues = N > 0, Analyse emits
\* issue breaches if and only if more than N issues remain after the
\* filtering by severity and by ignored rules; with at most N it emits no
\* issue breach.
C24_IssueBreachesIffOverThreshold ==
    (/\ Analysed
     /\ analysis.analyser.CheckIssues
     /\ analysis.analyser.MaxIssues > 0)
    => ((\E i \in 1..Len(Reported) : IsIssueBreach(Reported[i]))
          <=> C24_Remaining > analysis.analyser.MaxIssues)

\* issues were filtered out, the remaining ones exceed the threshold, and
\* their breaches were emitted
C24_Witness ==
    /\ Analysed
    /\ analysis.analyser.CheckIssues
    /\ analysis.analyser.MaxIssues > 0
    /\ C24_Remaining < Len(StoredResult.Issues)
    /\ C24_Remaining > analysis.analyser.MaxIssues
    /\ \E i \in 1..Len(Reported) :
          /\ IsIssueBreach(Reported[i])
          /\ Reported[i].variant = BreachTypeKeyValues
          /\ Len(Reported[i].Values) >= 1

====
